---- MODULE Spec2Model ----
(***************************************************************************)
(* A model of the job core of woo_be_api: the per-store concurrency        *)
(* counters (app/core/v2/rate_limit.py) with the request handlers that     *)
(* take and give back slots (app/api/v2/desc_builder.py).                  *)
(*                                                                         *)
(* Every awaited Redis command is one atomic step: the handlers run on one *)
(* asyncio loop, so two coroutines interleave exactly at their awaits.     *)
(***************************************************************************)
EXTENDS Integers, Sequences, FiniteSets, TLC

\* ------------------------------------------------------------------------
\* Bounds of the model
\* ------------------------------------------------------------------------

\* Concurrent requests against one store's counter.
NumCallers == 4

Callers == 1..NumCallers

\* ------------------------------------------------------------------------
\* Program constants
\* ------------------------------------------------------------------------

MAX_CONCURRENT_UPLOADS == 3

MAX_CONCURRENT_JOBS == 2

Kinds == {"upload", "job"}

\* The ceiling the acquire of a resource kind compares against.
Ceiling(k) == IF k = "upload" THEN MAX_CONCURRENT_UPLOADS ELSE MAX_CONCURRENT_JOBS

VARIABLES
    \* -- the concurrency counter of one store and its callers
    kind,       \* which counter key the run is about: desc:active_uploads / desc:active_jobs
    counter,    \* the integer stored under the key (a missing key reads as 0)
    hasTTL,     \* whether the key carries an expiry
    ttl,        \* the time the key has left before it expires, 0 without expiry
    pc,         \* per caller: where its request handler stands
    over,       \* per caller: whether new_count, the value INCR returned to it,
                \* is above the ceiling (all the call ever asks of new_count)
    \* -- the keys of the jobs in Redis
    state,      \* job:{id}:state, a hash, per job id
    log,        \* job:{id}:events, a stream, per job id; an entry's id is its index
    cancelFlag, \* whether job:{id}:cancel exists, per job id
    expires,    \* which of a job's keys (state, events, cancel) carry an expiry, per job id
    \* -- the request that creates the job, the job's handler, a cancelling client
    crpc,       \* where the create_job call stands
    hpc,        \* the statement the handler is at
    hphase,     \* inside an emit: the await it is at ("xadd", "hgetall", "hset")
    hread,      \* the hash _update_state read with HGETALL
    hbatch,     \* batches the handler has sent upstream
    hargs,      \* done and total of an emit_progress call made on its own
    cpc,        \* where the cancel_job call stands
    cjob,       \* the job id the cancel_job call was given
    cret,       \* what the last cancel_job call returned
    ncancel,    \* cancel_job calls made
    \* -- a client of the job endpoints
    jobData,    \* per job id: the keys under job:{id}:data: that hold a result
    req,        \* the last request made to a job endpoint
    resp,       \* the response it got
    access,     \* how _assert_job_access ended in it, if it was called
    \* -- Redis as the streamers find it, and the streamers of the job's events
    redisUp,    \* whether Redis answers (a command raises ConnectionError if not)
    outages,    \* times Redis has stopped answering
    spc,        \* per streamer: where _stream_events_impl / stream_job_events stands
    sstart,     \* per streamer: start_id, from the request's Last-Event-ID
    slast,      \* per streamer: last_id of stream_job_events
    sfrom,      \* per streamer: the id the XREAD in progress reads after
    sbatch,     \* per streamer: entries XREAD returned that are not yet yielded
    serrs,      \* per streamer: consecutive_errors
    ssnap,      \* per streamer: current_state, read before the generator starts
    swhen,      \* per streamer: whether the job's writer had returned when it connected
    senter,     \* per streamer without Last-Event-ID: the stream's top id when it
                \* entered stream_job_events
    frames,     \* per streamer: the frames sent to its client, in order
    sdisc,      \* per streamer: whether its client has disconnected
    \* -- one call of retry_with_backoff_async
    rpc,        \* where the call stands
    rparams,    \* max_retries, initial_delay, backoff_factor
    rattempt,   \* attempt, the loop variable
    rdelay,     \* delay
    routcomes,  \* what the invocations of func gave, in order
    rsleeps,    \* the arguments of the asyncio.sleep calls, in order
    rret        \* what the call returned

limiterVars == <<kind, counter, hasTTL, ttl, pc, over>>

storeVars == <<state, log, cancelFlag, expires>>

jobProcVars == <<crpc, hpc, hphase, hread, hbatch, hargs, cpc, cjob, cret, ncancel>>

gateVars == <<jobData, req, resp, access>>

streamVars ==
    <<redisUp, outages, spc, sstart, slast, sfrom, sbatch, serrs, ssnap, swhen, senter, frames, sdisc>>

retryVars == <<rpc, rparams, rattempt, rdelay, routcomes, rsleeps, rret>>

vars == <<limiterVars, storeVars, jobProcVars, gateVars, streamVars, retryVars>>

nonLimiterVars == <<storeVars, jobProcVars, gateVars, streamVars, retryVars>>

\* ------------------------------------------------------------------------
\* The job keys: JobStateManager and JobEventEmitter
\* ------------------------------------------------------------------------

\* The job ids a client may name: TheJob is the id create_job hands out in the
\* run, UnknownJob an id no create_job ever returned.
TheJob == "j1"

UnknownJob == "j2"

Jobs == {TheJob, UnknownJob}

\* The store (tenant) the job is created under.
JobStore == "A"

\* A hash field that is not there (HGETALL leaves it out; dict.get gives None).
Absent == "<absent>"

NoProgress == <<>>

\* A key that does not exist: a hash without fields.
EmptyHash ==
    [store_id |-> Absent, status |-> Absent, progress |-> NoProgress,
     client_session |-> Absent, job_token |-> Absent]

KeyExists(h) == h # EmptyHash

\* HSET key mapping=m: the fields m holds are written, the others kept.
HSetMapping(h, m) ==
    [store_id |-> IF m.store_id # Absent THEN m.store_id ELSE h.store_id,
     status |-> IF m.status # Absent THEN m.status ELSE h.status,
     progress |-> IF m.progress # NoProgress THEN m.progress ELSE h.progress,
     client_session |-> IF m.client_session # Absent THEN m.client_session ELSE h.client_session,
     job_token |-> IF m.job_token # Absent THEN m.job_token ELSE h.job_token]

\* The record create_job writes: status queued under the given store.
CreatedRecord(store) == [EmptyHash EXCEPT !.store_id = store, !.status = "queued"]

\* total=None of emit_status.
NoTotal == 0 - 1

\* An entry of the stream: the fields XADD is given, and the id XADD gives it.
StatusEvent(st, total) ==
    [id |-> 0, event |-> "status", status |-> st, done |-> 0, total |-> total, percent |-> 0]

ProgressEvent(done, total, percent) ==
    [id |-> 0, event |-> "progress", status |-> Absent, done |-> done, total |-> total,
     percent |-> percent]

LogEvent ==
    [id |-> 0, event |-> "log", status |-> Absent, done |-> 0, total |-> NoTotal, percent |-> 0]

\* The top id of a stream; 0-0 for an empty one.
LastId(l) == IF l = <<>> THEN 0 ELSE l[Len(l)].id

\* XADD giving the entry the stream's top id over again.
XAddStaleId(l, fields) == Append(l, [fields EXCEPT !.id = LastId(l)])

\* An XADD whose entry does not reach the stream.
XAddLost(l, fields) == l

\* XADD key * fields: Redis gives the entry an id above the stream's top id.
XAdd(l, fields) == Append(l, [fields EXCEPT !.id = LastId(l) + 1])

\* Python's float: an IEEE 754 double, a significand of 53 bits (most
\* significant first, the first one 1) and the power of two of its first bit.
SignificandBits == 53

RECURSIVE Zeros(_)
Zeros(n) == IF n = 0 THEN <<>> ELSE <<0>> \o Zeros(n - 1)

\* The first n bits after the binary point of rem / total, for rem < total,
\* by long division, and the remainder left after them.
RECURSIVE Expansion(_, _, _)
Expansion(rem, total, n) ==
    IF n = 0 THEN <<>>
    ELSE IF 2 * rem >= total THEN <<1>> \o Expansion(2 * rem - total, total, n - 1)
    ELSE <<0>> \o Expansion(2 * rem, total, n - 1)

RECURSIVE RemainderAfter(_, _, _)
RemainderAfter(rem, total, n) ==
    IF n = 0 THEN rem
    ELSE IF 2 * rem >= total THEN RemainderAfter(2 * rem - total, total, n - 1)
    ELSE RemainderAfter(2 * rem, total, n - 1)

\* The zero bits between the binary point and the first 1 of rem / total.
RECURSIVE LeadingZeros(_, _)
LeadingZeros(rem, total) ==
    IF 2 * rem >= total THEN 0 ELSE 1 + LeadingZeros(2 * rem, total)

\* A bit string plus one, for one that is not all ones.
RECURSIVE Increment(_)
Increment(bits) ==
    IF bits[Len(bits)] = 0
      THEN SubSeq(bits, 1, Len(bits) - 1) \o <<1>>
      ELSE Increment(SubSeq(bits, 1, Len(bits) - 1)) \o <<0>>

\* Round to nearest, ties to even: the double nearest to the number with the
\* given bits (the first one 1 and worth 2^e), sticky telling whether
\* nonzero bits follow them.
RoundToDouble(bits, e, sticky) ==
    IF Len(bits) <= SignificandBits
      THEN [m |-> bits \o Zeros(SignificandBits - Len(bits)), e |-> e]
      ELSE LET kept == SubSeq(bits, 1, SignificandBits)
               half == bits[SignificandBits + 1] = 1
               more == sticky \/ \E i \in SignificandBits + 2 .. Len(bits) : bits[i] = 1
               up == half /\ (more \/ kept[SignificandBits] = 1)
           IN  IF ~up THEN [m |-> kept, e |-> e]
               ELSE IF \A i \in 1 .. SignificandBits : kept[i] = 1
                 THEN [m |-> <<1>> \o Zeros(SignificandBits - 1), e |-> e + 1]
               ELSE [m |-> Increment(kept), e |-> e]

\* done / total as a double, for 0 < done <= total.
FloatDiv(done, total) ==
    IF done = total THEN RoundToDouble(<<1>>, 0, FALSE)
    ELSE LET z == LeadingZeros(done, total)
             rem == RemainderAfter(done, total, z)
         IN  RoundToDouble(Expansion(rem, total, SignificandBits + 1), 0 - (z + 1),
                           RemainderAfter(rem, total, SignificandBits + 1) # 0)

\* The bits, least significant first, of k times the number whose bits,
\* least significant first, are given, plus carry.
RECURSIVE TimesLowFirst(_, _, _)
TimesLowFirst(low, k, carry) ==
    IF low = <<>>
      THEN IF carry = 0 THEN <<>> ELSE <<carry % 2>> \o TimesLowFirst(low, k, carry \div 2)
      ELSE <<(Head(low) * k + carry) % 2>>
               \o TimesLowFirst(Tail(low), k, (Head(low) * k + carry) \div 2)

Reverse(q) == [i \in 1 .. Len(q) |-> q[Len(q) + 1 - i]]

\* A double times a small positive integer, as a double.
FloatTimes(f, k) ==
    LET product == Reverse(TimesLowFirst(Reverse(f.m), k, 0))
    IN  RoundToDouble(product, f.e + Len(product) - SignificandBits, FALSE)

RECURSIVE BitsToInt(_)
BitsToInt(bits) ==
    IF bits = <<>> THEN 0 ELSE 2 * BitsToInt(SubSeq(bits, 1, Len(bits) - 1)) + bits[Len(bits)]

\* int() of a positive double below 2^31: the bits above the binary point.
FloatToInt(f) == IF f.e < 0 THEN 0 ELSE BitsToInt(SubSeq(f.m, 1, f.e + 1))

\* percent of emit_progress computed in integers: floor(done * 100 / total).
PercentFloor(done, total) == IF total > 0 THEN (done * 100) \div total ELSE 0

\* percent = int((done / total * 100)) if total > 0 else 0
Percent(done, total) ==
    IF total > 0
      THEN IF done = 0 THEN 0 ELSE FloatToInt(FloatTimes(FloatDiv(done, total), 100))
      ELSE 0

\* The updates _update_state is given by emit_status and by emit_progress.
UpdatesOf(e) ==
    IF e.event = "status"
      THEN [EmptyHash EXCEPT !.status = e.status]
      ELSE [EmptyHash EXCEPT !.progress = <<e.done, e.total, e.percent>>]

\* _update_state between its two awaits: the hash it read (or, for a key that
\* is not there, the default record) with the updates laid over it.
DefaultState == [EmptyHash EXCEPT !.status = "queued"]

MergedState(read, updates) ==
    HSetMapping(IF KeyExists(read) THEN read ELSE DefaultState, updates)

\* A request: the path's store and job id, the token query parameter, the
\* X-Client-Session header, the client_session query parameter and the
\* X-Store-Key header.
NoRequest ==
    [endpoint |-> "none", store_id |-> Absent, job_id |-> Absent, token |-> Absent,
     x_client_session |-> Absent, client_session |-> Absent, x_store_key |-> Absent]

\* A response: the status code, the detail of an error, and what a 200 sends.
Response(code, detail, sends) == [code |-> code, detail |-> detail, sends |-> sends]

NoResponse == Response(0, <<>>, "none")

\* The streamers of the job's events.
Streamers == {1, 2}

\* last_id "$": entries added after the read was issued.
NewOnly == 0 - 1

\* A Last-Event-ID that is not a stream id.
BadId == 0 - 2

NoStreams ==
    /\ redisUp = TRUE
    /\ outages = 0
    /\ spc = [s \in Streamers |-> "idle"]
    /\ sstart = [s \in Streamers |-> NewOnly]
    /\ slast = [s \in Streamers |-> NewOnly]
    /\ sfrom = [s \in Streamers |-> 0]
    /\ sbatch = [s \in Streamers |-> <<>>]
    /\ serrs = [s \in Streamers |-> 0]
    /\ ssnap = [s \in Streamers |-> EmptyHash]
    /\ swhen = [s \in Streamers |-> FALSE]
    /\ senter = [s \in Streamers |-> 0]
    /\ frames = [s \in Streamers |-> <<>>]
    /\ sdisc = [s \in Streamers |-> FALSE]

NoRetry ==
    /\ rpc = "idle"
    /\ rparams = [max_retries |-> 0, initial_delay |-> 0, backoff_factor |-> 0]
    /\ rattempt = 0
    /\ rdelay = 0
    /\ routcomes = <<>>
    /\ rsleeps = <<>>
    /\ rret = "none"

NoJobs ==
    /\ NoStreams
    /\ NoRetry
    /\ jobData = [j \in Jobs |-> {}]
    /\ req = NoRequest
    /\ resp = NoResponse
    /\ access = "not_called"
    /\ state = [j \in Jobs |-> EmptyHash]
    /\ log = [j \in Jobs |-> <<>>]
    /\ cancelFlag = [j \in Jobs |-> FALSE]
    /\ expires = [j \in Jobs |-> [state |-> FALSE, events |-> FALSE, cancel |-> FALSE]]
    /\ crpc = "none"
    /\ hpc = "not_started"
    /\ hphase = "xadd"
    /\ hread = EmptyHash
    /\ hbatch = 0
    /\ hargs = [done |-> 0, total |-> 0]
    /\ cpc = "idle"
    /\ cjob = TheJob
    /\ cret = "none"
    /\ ncancel = 0

\* ------------------------------------------------------------------------
\* RateLimiter
\* ------------------------------------------------------------------------

\* The time EXPIRE gives the key (86400 s), in the model's units of time.
KeyTTL == 2

\* The number of release calls a handler makes for the slot it holds.
\*   upload_zip: one on the paths that return or raise outside the inner try
\*     (the inner finally, or one outer except); two when the inner try raises:
\*     the inner finally releases, and the HTTPException raised in its place is
\*     caught by the outer except, which releases again.
\*   generate_descriptions: one, in the finally of _run_generation_job; none
\*     when it raises between the acquire and the background task (rel_path
\*     validation, create_job).
ReleaseCalls(k) == IF k = "upload" THEN {1, 2} ELSE {0, 1}

\* acquire_*_slot, first await: GET, and the early 429 when the value read is
\* already at the ceiling.
AcquireGet(c) ==
    /\ pc[c] \in {"idle", "rejected"}
    /\ pc' = [pc EXCEPT ![c] = IF counter >= Ceiling(kind) THEN "rejected" ELSE "incr"]
    /\ UNCHANGED <<kind, counter, hasTTL, ttl, over>>
    /\ UNCHANGED nonLimiterVars

\* second await: INCR, whose result is new_count.
AcquireIncr(c) ==
    /\ pc[c] = "incr"
    /\ counter' = counter + 1
    /\ over' = [over EXCEPT ![c] = counter + 1 > Ceiling(kind)]
    /\ pc' = [pc EXCEPT ![c] = "expire"]
    /\ UNCHANGED <<kind, hasTTL, ttl>>
    /\ UNCHANGED nonLimiterVars

\* AcquireExpire with the comparison of new_count left out.
AcquireExpireNoCheck(c) ==
    /\ pc[c] = "expire"
    /\ hasTTL' = TRUE
    /\ ttl' = KeyTTL
    /\ pc' = [pc EXCEPT ![c] = "holding"]
    /\ over' = [over EXCEPT ![c] = FALSE]
    /\ UNCHANGED <<kind, counter>>
    /\ UNCHANGED nonLimiterVars

\* third await: EXPIRE; then new_count is compared with the ceiling: above it
\* the call goes on to roll back, else it returns True and the handler body
\* runs holding the slot.
AcquireExpire(c) ==
    /\ pc[c] = "expire"
    /\ hasTTL' = TRUE
    /\ ttl' = KeyTTL
    /\ pc' = [pc EXCEPT ![c] = IF over[c] THEN "rollback" ELSE "holding"]
    /\ over' = [over EXCEPT ![c] = FALSE]
    /\ UNCHANGED <<kind, counter>>
    /\ UNCHANGED nonLimiterVars

\* AcquireRollback that raises the 429 without the DECR.
AcquireRollbackNoDecr(c) ==
    /\ pc[c] = "rollback"
    /\ pc' = [pc EXCEPT ![c] = "rejected"]
    /\ UNCHANGED <<kind, counter, hasTTL, ttl, over>>
    /\ UNCHANGED nonLimiterVars

\* fourth await, over the ceiling only: DECR, then the 429.
AcquireRollback(c) ==
    /\ pc[c] = "rollback"
    /\ counter' = counter - 1
    /\ pc' = [pc EXCEPT ![c] = "rejected"]
    /\ UNCHANGED <<kind, hasTTL, ttl, over>>
    /\ UNCHANGED nonLimiterVars

\* Which release call of its handler a caller is at.
ReleaseNo(c) == IF pc[c] \in {"holding", "rel1_decr"} THEN 1 ELSE 2

\* Where a handler can stand once its n-th release call has returned: at
\* "released" when another release call follows on its path, at "idle" when
\* the request is over.
AfterRelease(n) ==
    {"idle"} \cup (IF n + 1 \in ReleaseCalls(kind) THEN {"released"} ELSE {})

\* A handler that releases nothing: the request ends, the slot stays counted.
HandlerLeak(c) ==
    /\ pc[c] = "holding"
    /\ 0 \in ReleaseCalls(kind)
    /\ pc' = [pc EXCEPT ![c] = "leaked"]
    /\ UNCHANGED <<kind, counter, hasTTL, ttl, over>>
    /\ UNCHANGED nonLimiterVars

\* release_*_slot, first await: GET; a value that is not positive ends the call.
ReleaseGet(c) ==
    /\ pc[c] \in {"holding", "released"}
    /\ IF counter > 0
         THEN pc' = [pc EXCEPT ![c] = IF ReleaseNo(c) = 1 THEN "rel1_decr" ELSE "rel2_decr"]
         ELSE \E next \in AfterRelease(ReleaseNo(c)) : pc' = [pc EXCEPT ![c] = next]
    /\ UNCHANGED <<kind, counter, hasTTL, ttl, over>>
    /\ UNCHANGED nonLimiterVars

\* second await: DECR.
ReleaseDecr(c) ==
    /\ pc[c] \in {"rel1_decr", "rel2_decr"}
    /\ counter' = counter - 1
    /\ \E next \in AfterRelease(ReleaseNo(c)) : pc' = [pc EXCEPT ![c] = next]
    /\ UNCHANGED <<kind, hasTTL, ttl, over>>
    /\ UNCHANGED nonLimiterVars

InitLimiter ==
    /\ kind \in Kinds
    /\ counter = 0
    /\ hasTTL = FALSE
    /\ ttl = 0
    /\ pc = [c \in Callers |-> "idle"]
    /\ over = [c \in Callers |-> FALSE]
    /\ NoJobs

NextLimiter ==
    \E c \in Callers :
        \/ AcquireGet(c)
        \/ AcquireIncr(c)
        \/ AcquireExpire(c)
        \/ AcquireRollback(c)
        \/ HandlerLeak(c)
        \/ ReleaseGet(c)
        \/ ReleaseDecr(c)

\* The handlers as they are: upload_zip and generate_descriptions.
SpecLimiter == InitLimiter /\ [][NextLimiter]_vars

\* The release calls of a handler on a path that makes one release call for
\* the slot it acquired: the request is over when the call returns.
ReleaseGetOnce(c) == ReleaseGet(c) /\ pc'[c] # "released"

ReleaseDecrOnce(c) == ReleaseDecr(c) /\ pc'[c] # "released"

\* The handlers on the paths where every release follows a successful acquire
\* by the same caller: one release call, or none, per slot acquired.
NextLimiterPaired ==
    \E c \in Callers :
        \/ AcquireGet(c)
        \/ AcquireIncr(c)
        \/ AcquireExpire(c)
        \/ AcquireRollback(c)
        \/ HandlerLeak(c)
        \/ ReleaseGetOnce(c)
        \/ ReleaseDecrOnce(c)

SpecLimiterPaired == InitLimiter /\ [][NextLimiterPaired]_vars

\* ------------------------------------------------------------------------
\* Claims about the RateLimiter
\* ------------------------------------------------------------------------

\* The callers holding a slot: acquire returned True to them and their (first)
\* release call has not returned.
Holders == {c \in Callers : pc[c] \in {"holding", "rel1_decr", "leaked"}}

\* The acquire calls between their INCR and their rollback DECR.
PendingRollbacks == {c \in Callers : (pc[c] = "expire" /\ over[c]) \/ pc[c] = "rollback"}

\* C1: when every release follows a successful acquire by the same caller, the
\* callers holding a slot never number more than the ceiling N (3 uploads, 2
\* jobs), and an acquire attempted while N slots are held is rejected (429): it
\* does not pass the first check, its INCR returns a value above N, and no
\* call returns True.
C1_HoldersWithinCeiling ==
    /\ [](Cardinality(Holders) <= Ceiling(kind))
    /\ [][\A c \in Callers :
            Cardinality(Holders) = Ceiling(kind) =>
                /\ (pc[c] \in {"idle", "rejected"} /\ pc'[c] # pc[c]) => pc'[c] = "rejected"
                /\ (pc[c] = "incr" /\ pc'[c] = "expire") => over'[c]
                /\ (pc[c] = "expire") => pc'[c] # "holding"]_vars

\* C1 witness: three uploads hold a slot and a fourth acquire, which passed the
\* first check in a race, is about to roll its increment back.
C1_Witness ==
    /\ kind = "upload"
    /\ Cardinality(Holders) = MAX_CONCURRENT_UPLOADS
    /\ \E c \in Callers : pc[c] = "rollback"

\* C2 as stated: the stored counter never exceeds the ceiling N, the states
\* between an acquire's increment and its rollback decrement included.
C2_CounterNeverAboveCeiling == counter <= Ceiling(kind)

\* C2 as amended: the stored counter exceeds the ceiling only while acquire
\* calls are between their increment and their rollback decrement, and by no
\* more than the number of those calls.
C2_CounterWithinCeilingPlusPending ==
    counter <= Ceiling(kind) + Cardinality(PendingRollbacks)

\* C2 witness: the counter stands above the ceiling while a rollback is due.
C2_Witness ==
    /\ counter > Ceiling(kind)
    /\ \E c \in Callers : pc[c] = "rollback"

\* C3: after any interleaving of acquire and release calls, two concurrent
\* release calls included, the counter is never negative (a release lowers a
\* positive counter by one and leaves a counter of zero alone).
C3_CounterNeverNegative == counter >= 0

\* The process of a caller that holds a slot dies: no release follows.
CallerCrashes(c) ==
    /\ pc[c] = "holding"
    /\ pc' = [pc EXCEPT ![c] = "crashed"]
    /\ UNCHANGED <<kind, counter, hasTTL, ttl, over>>
    /\ UNCHANGED nonLimiterVars

\* Time passes for a key with an expiry; Redis removes the key when its time
\* is up, and a key that is not there reads as 0.
Tick ==
    /\ hasTTL
    /\ ttl > 0
    /\ ttl' = ttl - 1
    /\ IF ttl = 1
         THEN counter' = 0 /\ hasTTL' = FALSE
         ELSE UNCHANGED <<counter, hasTTL>>
    /\ UNCHANGED <<kind, pc, over>>
    /\ UNCHANGED nonLimiterVars

\* Callers that release what they acquired, or crash holding it, while time
\* passes.
NextLimiterExpiry ==
    \/ \E c \in Callers :
          \/ AcquireGet(c)
          \/ AcquireIncr(c)
          \/ AcquireExpire(c)
          \/ AcquireRollback(c)
          \/ ReleaseGetOnce(c)
          \/ ReleaseDecrOnce(c)
          \/ CallerCrashes(c)
    \/ Tick

SpecLimiterExpiry == InitLimiter /\ [][NextLimiterExpiry]_vars /\ WF_vars(Tick)

\* C25: when a caller has crashed holding a slot, the counter eventually
\* stops counting that slot (it comes down to the slots held by callers that
\* are still there), whatever the other callers of the store do meanwhile.
C25_CrashedSlotComesBack ==
    \A c \in Callers : [](pc[c] = "crashed" => <>(counter <= Cardinality(Holders)))

\* ------------------------------------------------------------------------
\* A job: create_job, the detached handler, cancel_job
\* ------------------------------------------------------------------------

\* Batches the handler's scope divides into.
NumBatches == 2

\* cancel_job calls a client makes in a run.
MaxCancels == 2

\* batch_size of run_bulk_update_fields_job when the options give none.
DefaultBatchSize == 20

TotalItems == NumBatches * DefaultBatchSize

\* create_job, first await: HSET of the initial record.
CreateJobHSet ==
    /\ crpc = "none"
    /\ state' = [state EXCEPT ![TheJob] = HSetMapping(@, CreatedRecord(JobStore))]
    /\ crpc' = "expire"
    /\ UNCHANGED <<log, cancelFlag, expires, hpc, hphase, hread, hbatch, hargs, cpc, cjob, cret, ncancel>>
    /\ UNCHANGED <<limiterVars, gateVars, streamVars, retryVars>>

\* second await: EXPIRE; the id is returned and the endpoint adds the
\* background task.
CreateJobExpire ==
    /\ crpc = "expire"
    /\ expires' = [expires EXCEPT ![TheJob].state = TRUE]
    /\ crpc' = "returned"
    /\ UNCHANGED <<state, log, cancelFlag, hpc, hphase, hread, hbatch, hargs, cpc, cjob, cret, ncancel>>
    /\ UNCHANGED <<limiterVars, gateVars, streamVars, retryVars>>

\* total and done of the three-call scenario: emit_status("running", 10),
\* emit_progress(10, 10, 9, 1), emit_status("done").
ScenarioTotal == 10

\* The emits of the background tasks (_run_job_task, _run_feed_job_task,
\* _run_generation_job) around a handler that raises: the handler's first
\* status, then the emits of the except clauses.
TaskEmitLabels ==
    {"job_emit_running", "job_inner_log", "job_inner_failed", "job_outer_log",
     "job_outer_failed", "feed_emit_running", "feed_log", "feed_failed",
     "gen_emit_running", "gen_log", "gen_failed"}

\* The statements of run_bulk_update_fields_job that emit, and the calls of
\* the scenario, with what they emit.
EmitLabels ==
    TaskEmitLabels \cup
    {"gf_running", "gf_log_start", "gf_progress_fetching", "gf_cancelled", "gf_progress_xml",
     "gf_progress_done", "gf_done", "gf_log_result"} \cup
    {"scenario_running", "scenario_progress", "scenario_done", "progress_call",
     "emit_running", "log_start", "log_cancelled", "emit_cancelled", "log_batch",
     "log_updated", "emit_progress", "emit_cancelled_final", "log_completed",
     "emit_done", "emit_progress_final"}

EmitOf(l) ==
    CASE l = "emit_running" -> StatusEvent("running", TotalItems)
      [] l = "scenario_running" -> StatusEvent("running", ScenarioTotal)
      [] l = "scenario_progress" ->
            ProgressEvent(ScenarioTotal, ScenarioTotal, Percent(ScenarioTotal, ScenarioTotal))
      [] l = "scenario_done" -> StatusEvent("done", NoTotal)
      [] l = "progress_call" ->
            ProgressEvent(hargs.done, hargs.total, Percent(hargs.done, hargs.total))
      [] l = "gf_running" -> StatusEvent("running", NoTotal)
      [] l = "gf_progress_fetching" -> ProgressEvent(0, 100, Percent(0, 100))
      [] l = "gf_cancelled" -> StatusEvent("cancelled", NoTotal)
      [] l = "gf_progress_xml" -> ProgressEvent(50, 100, Percent(50, 100))
      [] l = "gf_progress_done" -> ProgressEvent(100, 100, Percent(100, 100))
      [] l = "gf_done" -> StatusEvent("done", NoTotal)
      [] l \in {"job_emit_running", "feed_emit_running", "gen_emit_running"} ->
            StatusEvent("running", TotalItems)
      [] l \in {"job_inner_failed", "job_outer_failed"} -> StatusEvent("failed", 0)
      [] l = "feed_failed" -> StatusEvent("failed", NoTotal)
      [] l = "gen_failed" -> StatusEvent("failed", TotalItems)
      [] l \in {"emit_cancelled", "emit_cancelled_final"} -> StatusEvent("cancelled", NoTotal)
      [] l = "emit_done" -> StatusEvent("done", NoTotal)
      [] l \in {"emit_progress", "emit_progress_final"} ->
            ProgressEvent(hbatch * DefaultBatchSize, TotalItems,
                          Percent(hbatch * DefaultBatchSize, TotalItems))
      [] OTHER -> LogEvent

\* The statement after an emit.
AfterEmit(l) ==
    CASE l = "emit_running" -> "log_start"
      [] l = "scenario_running" -> "scenario_progress"
      [] l = "scenario_progress" -> "scenario_done"
      [] l = "scenario_done" -> "scenario_completed"
      [] l = "progress_call" -> "progress_returned"
      [] l = "gf_running" -> "gf_log_start"
      [] l = "gf_log_start" -> "gf_progress_fetching"
      [] l = "gf_progress_fetching" -> "gf_fetch"
      [] l = "gf_cancelled" -> "returned"
      [] l = "gf_progress_xml" -> "gf_check_xml"
      [] l = "gf_progress_done" -> "gf_done"
      [] l = "gf_done" -> "gf_log_result"
      [] l = "gf_log_result" -> "returned"
      [] l = "job_emit_running" -> "job_body"
      [] l = "job_inner_log" -> "job_inner_failed"
      [] l = "job_inner_failed" -> "job_outer_log"
      [] l = "job_outer_log" -> "job_outer_failed"
      [] l = "job_outer_failed" -> "task_returned"
      [] l = "feed_emit_running" -> "feed_body"
      [] l = "feed_log" -> "feed_failed"
      [] l = "feed_failed" -> "task_returned"
      [] l = "gen_emit_running" -> "gen_body"
      [] l = "gen_log" -> "gen_failed"
      [] l = "gen_failed" -> "gen_finally"
      [] l = "log_start" -> "check"
      [] l = "log_cancelled" -> "emit_cancelled"
      [] l = "emit_cancelled" -> "returned"
      [] l = "log_batch" -> "upstream"
      [] l = "log_updated" -> "emit_progress"
      [] l = "emit_progress" -> IF hbatch < NumBatches THEN "check" ELSE "final_check"
      [] l = "emit_cancelled_final" -> "returned"
      [] l = "log_completed" -> "emit_done"
      [] l = "emit_done" -> "emit_progress_final"
      [] l = "emit_progress_final" -> "returned"

\* The three calls of the scenario are made after create_job, in place of a
\* handler.
ScenarioStart ==
    /\ crpc = "returned"
    /\ hpc = "not_started"
    /\ hpc' = "scenario_running"
    /\ UNCHANGED <<storeVars, crpc, hphase, hread, hbatch, hargs, cpc, cjob, cret, ncancel>>
    /\ UNCHANGED <<limiterVars, gateVars, streamVars, retryVars>>

\* Largest total an emit_progress call made on its own is given.
MaxTotal == 50

\* emit_progress(done, total, ...) is called after create_job, with any
\* 0 <= done <= total.
ProgressStart ==
    /\ crpc = "returned"
    /\ hpc = "not_started"
    /\ \E total \in 0 .. MaxTotal, done \in 0 .. MaxTotal :
          /\ done <= total
          /\ hargs' = [done |-> done, total |-> total]
    /\ hpc' = "progress_call"
    /\ UNCHANGED <<storeVars, crpc, hphase, hread, hbatch, cpc, cjob, cret, ncancel>>
    /\ UNCHANGED <<limiterVars, gateVars, streamVars, retryVars>>

\* The background task added before create_job is awaited.
HandlerStartEarly ==
    /\ hpc = "not_started"
    /\ hpc' = "emit_running"
    /\ UNCHANGED <<storeVars, crpc, hphase, hread, hbatch, hargs, cpc, cjob, cret, ncancel>>
    /\ UNCHANGED <<limiterVars, gateVars, streamVars, retryVars>>

\* The background task starts once the creating request has returned.
HandlerStart ==
    /\ crpc = "returned"
    /\ hpc = "not_started"
    /\ hpc' = "emit_running"
    /\ UNCHANGED <<storeVars, crpc, hphase, hread, hbatch, hargs, cpc, cjob, cret, ncancel>>
    /\ UNCHANGED <<limiterVars, gateVars, streamVars, retryVars>>

\* An emit that goes on to _update_state whatever the event is.
HandlerXAddThenUpdate ==
    /\ hpc \in EmitLabels
    /\ hphase = "xadd"
    /\ log' = [log EXCEPT ![TheJob] = XAdd(@, EmitOf(hpc))]
    /\ hpc' = hpc
    /\ hphase' = "hgetall"
    /\ UNCHANGED <<state, cancelFlag, expires, crpc, hread, hbatch, hargs, cpc, cjob, cret, ncancel>>
    /\ UNCHANGED <<limiterVars, gateVars, streamVars, retryVars>>

\* emit_*, first await: XADD.  emit_log ends there; emit_status and
\* emit_progress go on to _update_state.
HandlerXAdd ==
    /\ hpc \in EmitLabels
    /\ hphase = "xadd"
    /\ log' = [log EXCEPT ![TheJob] = XAdd(@, EmitOf(hpc))]
    /\ IF EmitOf(hpc).event = "log"
         THEN hpc' = AfterEmit(hpc) /\ hphase' = "xadd"
         ELSE hpc' = hpc /\ hphase' = "hgetall"
    /\ UNCHANGED <<state, cancelFlag, expires, crpc, hread, hbatch, hargs, cpc, cjob, cret, ncancel>>
    /\ UNCHANGED <<limiterVars, gateVars, streamVars, retryVars>>

\* _update_state, first await: HGETALL.
HandlerHGetAll ==
    /\ hpc \in EmitLabels
    /\ hphase = "hgetall"
    /\ hread' = state[TheJob]
    /\ hphase' = "hset"
    /\ UNCHANGED <<storeVars, crpc, hpc, hbatch, hargs, cpc, cjob, cret, ncancel>>
    /\ UNCHANGED <<limiterVars, gateVars, streamVars, retryVars>>

\* second await: HSET with mapping = the hash read before, updated: every
\* field that was read is written back.
HandlerHSet ==
    /\ hpc \in EmitLabels
    /\ hphase = "hset"
    /\ state' = [state EXCEPT
                    ![TheJob] = HSetMapping(@, MergedState(hread, UpdatesOf(EmitOf(hpc))))]
    /\ hread' = EmptyHash
    /\ hpc' = AfterEmit(hpc)
    /\ hphase' = "xadd"
    /\ UNCHANGED <<log, cancelFlag, expires, crpc, hbatch, hargs, cpc, cjob, cret, ncancel>>
    /\ UNCHANGED <<limiterVars, gateVars, streamVars, retryVars>>

\* A handler that goes on whatever is_cancelled answers.
HandlerIsCancelledIgnored ==
    /\ hpc \in {"check", "final_check"}
    /\ hpc' = IF hpc = "check" THEN "log_batch" ELSE "log_completed"
    /\ UNCHANGED <<storeVars, crpc, hphase, hread, hbatch, hargs, cpc, cjob, cret, ncancel>>
    /\ UNCHANGED <<limiterVars, gateVars, streamVars, retryVars>>

\* is_cancelled at the head of a batch and after the last one: EXISTS on the
\* cancel key.
HandlerIsCancelled ==
    /\ hpc \in {"check", "final_check"}
    /\ hpc' = IF hpc = "check"
                THEN (IF cancelFlag[TheJob] THEN "log_cancelled" ELSE "log_batch")
                ELSE (IF cancelFlag[TheJob] THEN "emit_cancelled_final" ELSE "log_completed")
    /\ UNCHANGED <<storeVars, crpc, hphase, hread, hbatch, hargs, cpc, cjob, cret, ncancel>>
    /\ UNCHANGED <<limiterVars, gateVars, streamVars, retryVars>>

\* The upstream calls of a batch (get_product, batch_update_products), every
\* product of the batch being updated.
HandlerUpstream ==
    /\ hpc = "upstream"
    /\ hbatch' = hbatch + 1
    /\ hpc' = "log_updated"
    /\ UNCHANGED <<storeVars, crpc, hphase, hread, hargs, cpc, cjob, cret, ncancel>>
    /\ UNCHANGED <<limiterVars, gateVars, streamVars, retryVars>>

\* cancel_job, first await: EXISTS on the state key; False for a key that is
\* not there.
CancelExists(j) ==
    /\ cpc = "idle"
    /\ ncancel < MaxCancels
    /\ ncancel' = ncancel + 1
    /\ cjob' = j
    /\ IF KeyExists(state[j])
         THEN cpc' = "hset_status" /\ cret' = "none"
         ELSE cpc' = "idle" /\ cret' = "false"
    /\ UNCHANGED <<storeVars, crpc, hpc, hphase, hread, hbatch, hargs>>
    /\ UNCHANGED <<limiterVars, gateVars, streamVars, retryVars>>

\* second await: HSET status cancelled.
CancelHSetStatus ==
    /\ cpc = "hset_status"
    /\ state' = [state EXCEPT ![cjob].status = "cancelled"]
    /\ cpc' = "hset_updated_at"
    /\ UNCHANGED <<log, cancelFlag, expires, crpc, hpc, hphase, hread, hbatch, hargs, cjob, cret, ncancel>>
    /\ UNCHANGED <<limiterVars, gateVars, streamVars, retryVars>>

\* third await: HSET updated_at.
CancelHSetUpdatedAt ==
    /\ cpc = "hset_updated_at"
    /\ cpc' = "set_flag"
    /\ UNCHANGED <<storeVars, crpc, hpc, hphase, hread, hbatch, hargs, cjob, cret, ncancel>>
    /\ UNCHANGED <<limiterVars, gateVars, streamVars, retryVars>>

\* fourth await: SET of the cancel key; True is returned.
CancelSetFlag ==
    /\ cpc = "set_flag"
    /\ cancelFlag' = [cancelFlag EXCEPT ![cjob] = TRUE]
    /\ expires' = [expires EXCEPT ![cjob].cancel = TRUE]
    /\ cpc' = "idle"
    /\ cret' = "true"
    /\ UNCHANGED <<state, log, crpc, hpc, hphase, hread, hbatch, hargs, cjob, ncancel>>
    /\ UNCHANGED <<limiterVars, gateVars, streamVars, retryVars>>

IdleLimiter ==
    /\ kind = "job"
    /\ counter = 0
    /\ hasTTL = FALSE
    /\ ttl = 0
    /\ pc = [c \in Callers |-> "idle"]
    /\ over = [c \in Callers |-> FALSE]

InitJob == NoJobs /\ IdleLimiter

NextJob ==
    \/ CreateJobHSet
    \/ CreateJobExpire
    \/ HandlerStart
    \/ HandlerXAdd
    \/ HandlerHGetAll
    \/ HandlerHSet
    \/ HandlerIsCancelled
    \/ HandlerUpstream
    \/ \E j \in Jobs : CancelExists(j)
    \/ CancelHSetStatus
    \/ CancelHSetUpdatedAt
    \/ CancelSetFlag

SpecJob == InitJob /\ [][NextJob]_vars

\* The event loop resumes the background task whenever the call it awaits
\* has completed: a handler standing at a cancellation check, or at an emit
\* that follows one that answered true, takes its step in the end.
CancelStep ==
    /\ hpc \in {"check", "final_check", "log_cancelled", "emit_cancelled",
                "emit_cancelled_final"}
    /\ HandlerXAdd \/ HandlerHGetAll \/ HandlerHSet \/ HandlerIsCancelled

SpecJobFair == SpecJob /\ WF_vars(CancelStep)

\* ------------------------------------------------------------------------
\* Claims about the job's status, cancellation and log
\* ------------------------------------------------------------------------

TerminalStatuses == {"done", "failed", "cancelled"}

\* The status events of a job's log, in log order.
StatusEvents(j) == SelectSeq(log[j], LAMBDA e : e.event = "status")

\* C8: under every interleaving of the emits and cancel_job the projection's
\* status never moves backward: once done, failed or cancelled it never
\* changes to another value, and cancelled is only written over queued or
\* running.
C8_StatusNeverMovesBackward ==
    [][\A j \in Jobs :
         /\ state[j].status \in TerminalStatuses => state'[j].status = state[j].status
         /\ (state'[j].status = "cancelled" /\ state[j].status # "cancelled")
               => state[j].status \in {"queued", "running"}]_vars

\* C9: cancel_job on an id without a state record returns false and writes
\* neither a state record nor a cancel flag; on a known id it returns true,
\* and when it does the flag is set and the status is cancelled; no step ever
\* takes a cancel flag back.
C9_CancelJobContract ==
    [][/\ (cpc = "idle" /\ cret' = "false" /\ ncancel' # ncancel)
            => (~KeyExists(state[cjob']) /\ state' = state /\ cancelFlag' = cancelFlag)
       /\ (cpc = "idle" /\ ncancel' # ncancel /\ KeyExists(state[cjob']))
            => cpc' = "hset_status"
       /\ (cpc = "set_flag" /\ cpc' = "idle")
            => (cret' = "true" /\ cancelFlag'[cjob] /\ state'[cjob].status = "cancelled")
       /\ \A j \in Jobs : cancelFlag[j] => cancelFlag'[j]]_vars

\* C10: whenever the projection's status is done, failed or cancelled, the
\* job's log holds a status event and the last one carries that status.
C10_TerminalStatusIsLastStatusEvent ==
    \A j \in Jobs :
        state[j].status \in TerminalStatuses =>
            /\ Len(StatusEvents(j)) > 0
            /\ StatusEvents(j)[Len(StatusEvents(j))].status = state[j].status

\* ------------------------------------------------------------------------
\* The job endpoints and their access checks
\*
\* A handler is one step: the fields its checks read (store_id,
\* client_session, job_token) are written once, when the job is created, and
\* Redis is taken to answer.  The client reads a response before the next
\* request is made or a job is created.
\* ------------------------------------------------------------------------

\* Stores of the store configuration; "C" has no API key configured.
ConfiguredStores == {"A", "B", "C"}

\* Store ids a request path can carry; "Z" is in no configuration.
PathStores == ConfiguredStores \cup {"Z"}

StoreApiKey(s) == CASE s = "A" -> "kA" [] s = "B" -> "kB" [] OTHER -> Absent

JobToken == "t1"

Tokens == {Absent, "", JobToken, "bad"}

HeaderSessions == {Absent, "s1", "s2"}

QuerySessions == {Absent, "", "s2"}

StoreKeys == {Absent, "kA", "kB"}

\* Python's truth test of an Optional[str].
Falsy(v) == v \in {Absent, ""}

\* Python's a or b.
Or(a, b) == IF Falsy(a) THEN b ELSE a

\* No HTTPException raised.
Passed == NoResponse

JobNotFound(job_id) == Response(404, <<"Job not found", job_id>>, "none")

verify_store_key(store_id, store_key) ==
    IF Falsy(store_key) THEN Response(403, <<"Missing X-Store-Key header">>, "none")
    ELSE IF store_id \notin ConfiguredStores
        THEN Response(404, <<"Store not found", store_id>>, "none")
    ELSE IF Falsy(StoreApiKey(store_id))
        THEN Response(500, <<"Store does not have an API key configured", store_id>>, "none")
    ELSE IF store_key # StoreApiKey(store_id)
        THEN Response(403, <<"Invalid X-Store-Key">>, "none")
    ELSE Passed

\* verify_job_token: the token equals the one stored with the job.
verify_job_token(rec, token) ==
    KeyExists(rec) /\ ~Falsy(rec.job_token) /\ token = rec.job_token

\* assert_job_access with the session before the store.
assert_job_access_session_first(rec, store_id, effective_session) ==
    IF ~KeyExists(rec) THEN "404"
    ELSE IF ~Falsy(rec.client_session) /\ Falsy(effective_session) THEN "401"
    ELSE IF ~Falsy(rec.client_session) /\ effective_session # rec.client_session THEN "403"
    ELSE IF rec.store_id # store_id THEN "404"
    ELSE "granted"

\* _assert_job_access: the status code it raises, or "granted".
assert_job_access(rec, store_id, effective_session) ==
    IF ~KeyExists(rec) THEN "404"
    ELSE IF rec.store_id # store_id THEN "404"
    ELSE IF ~Falsy(rec.client_session)
        THEN IF Falsy(effective_session) THEN "401"
             ELSE IF effective_session # rec.client_session THEN "403"
             ELSE "granted"
    ELSE "granted"

\* The HTTPException _assert_job_access raises.
AccessDenied(code, job_id) ==
    CASE code = "404" -> JobNotFound(job_id)
      [] code = "401" -> Response(401, <<"client_session required">>, "none")
      [] code = "403" -> Response(403, <<"Client session does not match job">>, "none")

EffectiveSession(r) == Or(r.x_client_session, r.client_session)

AccessOf(r, rec) == assert_job_access(rec, r.store_id, EffectiveSession(r))

\* GET /stores/{store_id}/jobs/{job_id}
get_job(r, rec) ==
    IF ~KeyExists(rec) THEN JobNotFound(r.job_id)
    ELSE IF rec.store_id # r.store_id
        THEN Response(404, <<"Job not found for store", r.job_id, r.store_id>>, "none")
    ELSE Response(200, <<>>, "job")

\* POST /stores/{store_id}/jobs/{job_id}/cancel; cancel_job returns False
\* for a record that is not there.
cancel_job_endpoint(r, rec) ==
    IF ~KeyExists(rec) \/ rec.store_id # r.store_id THEN JobNotFound(r.job_id)
    ELSE Response(200, <<>>, "cancelled")

\* _stream_events_impl; a store key that fails to verify is passed over.
stream_events_impl(store_id, job_id, token, rec) ==
    IF ~KeyExists(rec) \/ rec.store_id # store_id THEN JobNotFound(job_id)
    ELSE IF Falsy(token) THEN Response(403, <<"Missing job token">>, "none")
    ELSE IF ~verify_job_token(rec, token) THEN Response(403, <<"Invalid job token">>, "none")
    ELSE Response(200, <<>>, "stream")

\* A required query parameter that the request does not carry.
MissingParameter(name) == Response(422, <<"Field required", name>>, "none")

\* GET /stores/{store_id}/jobs/{job_id}/events
stream_events(r, rec) ==
    IF r.token = Absent THEN MissingParameter("token")
    ELSE stream_events_impl(r.store_id, r.job_id, r.token, rec)

\* GET /stores/{store_id}/feeds/jobs/{job_id}
get_feed_job(r, rec) ==
    IF verify_store_key(r.store_id, r.x_store_key) # Passed
        THEN verify_store_key(r.store_id, r.x_store_key)
    ELSE IF AccessOf(r, rec) # "granted" THEN AccessDenied(AccessOf(r, rec), r.job_id)
    ELSE Response(200, <<>>, "job")

\* GET /stores/{store_id}/feeds/jobs/{job_id}/events
stream_feed_job_events(r, rec) ==
    IF AccessOf(r, rec) # "granted" THEN AccessDenied(AccessOf(r, rec), r.job_id)
    ELSE IF ~Falsy(r.token)
        THEN IF ~verify_job_token(rec, r.token)
             THEN Response(403, <<"Invalid job token">>, "none")
             ELSE stream_events_impl(r.store_id, r.job_id, r.token, rec)
    ELSE IF Falsy(rec.job_token)
        THEN Response(403, <<"Job token not available">>, "none")
    ELSE stream_events_impl(r.store_id, r.job_id, rec.job_token, rec)

\* GET /stores/{store_id}/feeds/jobs/{job_id}/download; the file the outputs
\* name is taken to be on disk.
download_feed_file(r, rec, data) ==
    IF verify_store_key(r.store_id, r.x_store_key) # Passed
        THEN verify_store_key(r.store_id, r.x_store_key)
    ELSE IF AccessOf(r, rec) # "granted" THEN AccessDenied(AccessOf(r, rec), r.job_id)
    ELSE IF "outputs" \notin data THEN Response(404, <<"Feed file not found">>, "none")
    ELSE Response(200, <<>>, "file")

\* GET /stores/{store_id}/desc-builder/download/{job_id}; the patch the path
\* names is taken to be on disk.
download_patch_zip(r, rec, data) ==
    IF r.token = Absent THEN MissingParameter("token")
    ELSE IF ~KeyExists(rec) \/ rec.store_id # r.store_id THEN JobNotFound(r.job_id)
    ELSE IF Falsy(r.token) THEN Response(403, <<"Missing job token">>, "none")
    ELSE IF ~verify_job_token(rec, r.token) THEN Response(403, <<"Invalid job token">>, "none")
    ELSE IF "patch_zip_path" \notin data
        THEN Response(404, <<"ZIP patch not available for this job">>, "none")
    ELSE Response(200, <<>>, "file")

FeedEndpoints == {"get_feed_job", "stream_feed_job_events", "download_feed_file"}

\* What an endpoint answers to a request, given the job's record and data.
Respond(r, rec, data) ==
    CASE r.endpoint = "get_job" -> get_job(r, rec)
      [] r.endpoint = "cancel_job" -> cancel_job_endpoint(r, rec)
      [] r.endpoint = "stream_events" -> stream_events(r, rec)
      [] r.endpoint = "get_feed_job" -> get_feed_job(r, rec)
      [] r.endpoint = "stream_feed_job_events" -> stream_feed_job_events(r, rec)
      [] r.endpoint = "download_feed_file" -> download_feed_file(r, rec, data)
      [] r.endpoint = "download_patch_zip" -> download_patch_zip(r, rec, data)

\* How _assert_job_access ends in a request, if the handler gets to call it.
AccessIn(r, rec) ==
    IF r.endpoint \notin FeedEndpoints THEN "not_called"
    ELSE IF r.endpoint # "stream_feed_job_events"
            /\ verify_store_key(r.store_id, r.x_store_key) # Passed THEN "not_called"
    ELSE AccessOf(r, rec)

\* The requests an endpoint's signature admits; download_feed_file declares no
\* token parameter, and one sent to it all the same is not looked at.
RequestsTo(e) ==
    {[endpoint |-> e, store_id |-> s, job_id |-> j, token |-> t,
      x_client_session |-> xs, client_session |-> qs, x_store_key |-> k] :
        s \in PathStores, j \in Jobs,
        t \in IF e \in {"stream_events", "stream_feed_job_events", "download_patch_zip",
                          "download_feed_file"}
                 THEN Tokens ELSE {Absent},
        xs \in IF e \in FeedEndpoints THEN HeaderSessions ELSE {Absent},
        qs \in IF e \in FeedEndpoints THEN QuerySessions ELSE {Absent},
        k \in IF e \in {"get_feed_job", "download_feed_file"} THEN StoreKeys ELSE {Absent}}

\* create_job as the v1 endpoints call it: the queued record, with neither a
\* token nor a session.
CreateJob ==
    /\ req = NoRequest
    /\ crpc = "none"
    /\ state' = [state EXCEPT ![TheJob] = HSetMapping(@, CreatedRecord(JobStore))]
    /\ crpc' = "returned"
    /\ UNCHANGED <<log, cancelFlag, expires, hpc, hphase, hread, hbatch, hargs, cpc, cjob, cret, ncancel>>
    /\ UNCHANGED <<limiterVars, gateVars, streamVars, retryVars>>

\* create_job(store_id, job_type, params, client_session) -> (job_id,
\* job_token): the record also holds the token and, if one was given, the
\* session.
CreateJobWithToken(client_session) ==
    /\ req = NoRequest
    /\ crpc = "none"
    /\ state' = [state EXCEPT
                    ![TheJob] = HSetMapping(@, [CreatedRecord(JobStore) EXCEPT
                                                  !.client_session = client_session,
                                                  !.job_token = JobToken])]
    /\ expires' = [expires EXCEPT ![TheJob].state = TRUE]
    /\ crpc' = "returned"
    /\ UNCHANGED <<log, cancelFlag, hpc, hphase, hread, hbatch, hargs, cpc, cjob, cret, ncancel>>
    /\ UNCHANGED <<limiterVars, gateVars, streamVars, retryVars>>

\* set_job_data by the job's handler: the feed's outputs, the description
\* patch's path.
SetJobData(key) ==
    /\ req = NoRequest
    /\ crpc = "returned"
    /\ key \notin jobData[TheJob]
    /\ jobData' = [jobData EXCEPT ![TheJob] = @ \cup {key}]
    /\ UNCHANGED <<req, resp, access>>
    /\ UNCHANGED <<limiterVars, storeVars, jobProcVars, streamVars, retryVars>>

\* A request is received and answered.
Answer(r) ==
    /\ req = NoRequest
    /\ req' = r
    /\ resp' = Respond(r, state[r.job_id], jobData[r.job_id])
    /\ access' = AccessIn(r, state[r.job_id])
    /\ UNCHANGED jobData
    /\ UNCHANGED <<limiterVars, jobProcVars, streamVars, retryVars>>

GetJob == \E r \in RequestsTo("get_job") : Answer(r) /\ UNCHANGED storeVars

\* The cancel endpoint calls cancel_job when the record is the path store's.
CancelJob ==
    \E r \in RequestsTo("cancel_job") :
        /\ Answer(r)
        /\ IF cancel_job_endpoint(r, state[r.job_id]).code = 200
             THEN /\ state' = [state EXCEPT ![r.job_id].status = "cancelled"]
                  /\ cancelFlag' = [cancelFlag EXCEPT ![r.job_id] = TRUE]
                  /\ expires' = [expires EXCEPT ![r.job_id].cancel = TRUE]
             ELSE UNCHANGED <<state, cancelFlag, expires>>
        /\ UNCHANGED log

StreamEvents == \E r \in RequestsTo("stream_events") : Answer(r) /\ UNCHANGED storeVars

GetFeedJob == \E r \in RequestsTo("get_feed_job") : Answer(r) /\ UNCHANGED storeVars

StreamFeedJobEvents ==
    \E r \in RequestsTo("stream_feed_job_events") : Answer(r) /\ UNCHANGED storeVars

DownloadFeedFile ==
    \E r \in RequestsTo("download_feed_file") : Answer(r) /\ UNCHANGED storeVars

DownloadPatchZip ==
    \E r \in RequestsTo("download_patch_zip") : Answer(r) /\ UNCHANGED storeVars

\* The client has read the response.
ClientReads ==
    /\ req # NoRequest
    /\ req' = NoRequest
    /\ resp' = NoResponse
    /\ access' = "not_called"
    /\ UNCHANGED jobData
    /\ UNCHANGED <<limiterVars, storeVars, jobProcVars, streamVars, retryVars>>

InitGate == NoJobs /\ IdleLimiter

NextGate ==
    \/ CreateJob
    \/ \E client_session \in {Absent, "s1"} : CreateJobWithToken(client_session)
    \/ \E key \in {"outputs", "patch_zip_path"} : SetJobData(key)
    \/ GetJob
    \/ CancelJob
    \/ StreamEvents
    \/ GetFeedJob
    \/ StreamFeedJobEvents
    \/ DownloadFeedFile
    \/ DownloadPatchZip
    \/ ClientReads

SpecGate == InitGate /\ [][NextGate]_vars

\* ------------------------------------------------------------------------
\* Claims about the access checks
\* ------------------------------------------------------------------------

\* The record of the job the last request names.
Requested == state[req.job_id]

\* The request carries the token stored with the job it names.
PresentedJobToken ==
    req.token # Absent /\ KeyExists(Requested) /\ req.token = Requested.job_token

\* C4: a job's event stream is served (the connected frame is sent) only to
\* a request that presented a token equal to the job's stored job_token.
C4_StreamOnlyWithJobToken == resp.sends = "stream" => PresentedJobToken

\* C5: a job's result file is returned by a download endpoint only to a
\* request that presented a token equal to the job's job_token.
C5_DownloadOnlyWithJobToken == resp.sends = "file" => PresentedJobToken

\* The session a request supplies: the header's, else the query parameter's;
\* none if both are missing or empty.
SuppliedSession ==
    IF req.x_client_session \notin {Absent, ""} THEN req.x_client_session
    ELSE req.client_session

C7_CrossStoreLooksLikeUnknownJob ==
    (req # NoRequest /\ KeyExists(Requested) /\ Requested.store_id # req.store_id)
        => /\ resp.code = Respond(req, EmptyHash, {}).code
           /\ resp.detail = Respond(req, EmptyHash, {}).detail

\* ------------------------------------------------------------------------
\* The streamer: _stream_events_impl after its checks, event_generator and
\* stream_job_events
\* ------------------------------------------------------------------------

\* max_consecutive_errors of stream_job_events.
MaxConsecutiveErrors == 3

\* count of the XREAD.
XReadCount == 10

\* Heartbeats a streamer sends in a run.
MaxHeartbeats == 1

\* Last-Event-ID values that are stream ids: 0 .. MaxStart.
MaxStart == 2

\* start_id: the request's Last-Event-ID, "$" without one.
StartIds == {NewOnly, BadId} \cup (0 .. MaxStart)

\* A field a frame does not carry.
NoField == 0 - 1

Frame(fkind, id, event, status, done, total, percent) ==
    [kind |-> fkind, id |-> id, event |-> event, status |-> status, done |-> done,
     total |-> total, percent |-> percent]

\* event: connected
ConnectedFrame == Frame("connected", NoField, "connected", Absent, NoField, NoField, NoField)

\* event: snapshot, with status, done and total of current_state.
SnapshotFrame(st) ==
    Frame("snapshot", NoField, "snapshot",
          IF st.status # Absent THEN st.status ELSE "unknown",
          IF st.progress # NoProgress THEN st.progress[1] ELSE 0,
          IF st.progress # NoProgress THEN st.progress[2] ELSE 0,
          NoField)

\* An entry of the stream formatted as id:, event:, data: lines.
DataFrame(e) == Frame("data", e.id, e.event, e.status, e.done, e.total, e.percent)

\* ": ping" and ": retrying_connection_n"
CommentFrame(text) == Frame("comment", NoField, text, Absent, NoField, NoField, NoField)

\* event: error
ErrorFrame == Frame("error", NoField, "error", Absent, NoField, NoField, NoField)

HeartbeatsSent(s) ==
    Len(SelectSeq(frames[s], LAMBDA f : f.kind = "comment" /\ f.event = "ping"))

\* The entries of a stream with an id above the given one, oldest first.
EntriesAfter(l, id) == SelectSeq(l, LAMBDA e : e.id > id)

Min(a, b) == IF a < b THEN a ELSE b

\* The rest of the job model and the retry call stand still.
StreamerOnly == UNCHANGED <<limiterVars, storeVars, jobProcVars, gateVars, retryVars>>

\* _stream_events_impl past its checks: start_id, and current_state read for
\* the snapshot; the StreamingResponse is returned.
Connect(s, last_event_id) ==
    /\ spc[s] = "idle"
    /\ redisUp
    /\ KeyExists(state[TheJob])
    /\ sstart' = [sstart EXCEPT ![s] = last_event_id]
    /\ slast' = [slast EXCEPT ![s] = last_event_id]
    /\ ssnap' = [ssnap EXCEPT ![s] = state[TheJob]]
    /\ swhen' = [swhen EXCEPT ![s] = hpc \in {"returned", "scenario_completed"}]
    /\ spc' = [spc EXCEPT ![s] = "send_connected"]
    /\ UNCHANGED <<redisUp, outages, sfrom, sbatch, serrs, senter, frames, sdisc>>
    /\ StreamerOnly

\* event_generator: the connected frame.
SendConnected(s) ==
    /\ spc[s] = "send_connected"
    /\ frames' = [frames EXCEPT ![s] = Append(@, ConnectedFrame)]
    /\ spc' = [spc EXCEPT ![s] = "send_snapshot"]
    /\ UNCHANGED <<redisUp, outages, sstart, slast, sfrom, sbatch, serrs, ssnap, swhen, senter, sdisc>>
    /\ StreamerOnly

\* event_generator without the snapshot frame.
SendNoSnapshot(s) ==
    /\ spc[s] = "send_snapshot"
    /\ senter' = [senter EXCEPT ![s] = IF sstart[s] = NewOnly THEN LastId(log[TheJob]) ELSE 0]
    /\ spc' = [spc EXCEPT ![s] = "ping"]
    /\ UNCHANGED <<redisUp, outages, sstart, slast, sfrom, sbatch, serrs, ssnap, swhen, sdisc, frames>>
    /\ StreamerOnly

\* event_generator: the snapshot frame, if current_state is there; then
\* stream_job_events is entered.
SendSnapshot(s) ==
    /\ spc[s] = "send_snapshot"
    /\ frames' = [frames EXCEPT
                     ![s] = IF KeyExists(ssnap[s]) THEN Append(@, SnapshotFrame(ssnap[s])) ELSE @]
    /\ senter' = [senter EXCEPT ![s] = IF sstart[s] = NewOnly THEN LastId(log[TheJob]) ELSE 0]
    /\ spc' = [spc EXCEPT ![s] = "ping"]
    /\ UNCHANGED <<redisUp, outages, sstart, slast, sfrom, sbatch, serrs, ssnap, swhen, sdisc>>
    /\ StreamerOnly

\* The except clauses of stream_job_events: consecutive_errors += 1, then the
\* error event at the threshold, else the sleep.
Raised(s, exception) ==
    /\ serrs' = [serrs EXCEPT ![s] = @ + 1]
    /\ spc' = [spc EXCEPT
                  ![s] = IF serrs[s] + 1 >= MaxConsecutiveErrors THEN "yield_error"
                         ELSE IF exception = "ConnectionError" THEN "sleep_then_comment"
                         ELSE "sleep"]
    /\ UNCHANGED <<sfrom, sbatch>>

\* await redis_client.ping(); consecutive_errors = 0
Ping(s) ==
    /\ spc[s] = "ping"
    /\ IF redisUp
         THEN /\ serrs' = [serrs EXCEPT ![s] = 0]
              /\ spc' = [spc EXCEPT ![s] = "xread"]
              /\ UNCHANGED <<sfrom, sbatch>>
         ELSE Raised(s, "ConnectionError")
    /\ UNCHANGED <<redisUp, outages, sstart, slast, ssnap, swhen, senter, frames, sdisc>>
    /\ StreamerOnly

\* XReadCall reading after start_id every time, not after last_id.
XReadCallFromStart(s) ==
    /\ spc[s] = "xread"
    /\ sfrom' = [sfrom EXCEPT
                    ![s] = IF sstart[s] = NewOnly THEN LastId(log[TheJob]) ELSE sstart[s]]
    /\ spc' = [spc EXCEPT ![s] = "xread_blocked"]
    /\ UNCHANGED <<serrs, sbatch>>
    /\ UNCHANGED <<redisUp, outages, sstart, slast, ssnap, swhen, senter, frames, sdisc>>
    /\ StreamerOnly

\* XREAD is issued: Redis takes "$" as the stream's top id of that moment, and
\* refuses an id it cannot parse.
XReadCall(s) ==
    /\ spc[s] = "xread"
    /\ IF ~redisUp THEN Raised(s, "ConnectionError")
       ELSE IF slast[s] = BadId THEN Raised(s, "ResponseError")
       ELSE /\ sfrom' = [sfrom EXCEPT
                            ![s] = IF slast[s] = NewOnly THEN LastId(log[TheJob]) ELSE slast[s]]
            /\ spc' = [spc EXCEPT ![s] = "xread_blocked"]
            /\ UNCHANGED <<serrs, sbatch>>
    /\ UNCHANGED <<redisUp, outages, sstart, slast, ssnap, swhen, senter, frames, sdisc>>
    /\ StreamerOnly

\* XREAD returning entries and removing them from the stream.
XReadReturnConsuming(s) ==
    /\ spc[s] = "xread_blocked"
    /\ redisUp
    /\ EntriesAfter(log[TheJob], sfrom[s]) # <<>>
    /\ sbatch' = [sbatch EXCEPT ![s] = EntriesAfter(log[TheJob], sfrom[s])]
    /\ log' = [log EXCEPT ![TheJob] = SelectSeq(@, LAMBDA e : e.id <= sfrom[s])]
    /\ spc' = [spc EXCEPT ![s] = "yield"]
    /\ UNCHANGED <<redisUp, outages, sstart, slast, sfrom, serrs, ssnap, swhen, senter, frames, sdisc>>
    /\ UNCHANGED <<limiterVars, state, cancelFlag, expires, jobProcVars, gateVars, retryVars>>

\* XREAD returns: the entries above the id it was issued with, up to count of
\* them, as soon as there are any; nothing after the block time; a
\* ConnectionError if Redis stopped answering meanwhile.
XReadReturn(s) ==
    /\ spc[s] = "xread_blocked"
    /\ IF ~redisUp THEN Raised(s, "ConnectionError")
       ELSE IF EntriesAfter(log[TheJob], sfrom[s]) # <<>>
         THEN /\ sbatch' = [sbatch EXCEPT
                               ![s] = SubSeq(EntriesAfter(log[TheJob], sfrom[s]), 1,
                                             Min(XReadCount,
                                                 Len(EntriesAfter(log[TheJob], sfrom[s]))))]
              /\ spc' = [spc EXCEPT ![s] = "yield"]
              /\ UNCHANGED <<serrs, sfrom>>
         ELSE /\ HeartbeatsSent(s) < MaxHeartbeats
              /\ spc' = [spc EXCEPT ![s] = "yield_ping"]
              /\ UNCHANGED <<serrs, sfrom, sbatch>>
    /\ UNCHANGED <<redisUp, outages, sstart, slast, ssnap, swhen, senter, frames, sdisc>>
    /\ StreamerOnly

\* YieldEvent without the is_disconnected check.
YieldEventUnchecked(s) ==
    /\ spc[s] = "yield"
    /\ frames' = [frames EXCEPT ![s] = Append(@, DataFrame(Head(sbatch[s])))]
    /\ slast' = [slast EXCEPT ![s] = Head(sbatch[s]).id]
    /\ sbatch' = [sbatch EXCEPT ![s] = Tail(@)]
    /\ spc' = [spc EXCEPT ![s] = IF Tail(sbatch[s]) = <<>> THEN "ping" ELSE "yield"]
    /\ UNCHANGED <<redisUp, outages, sstart, sfrom, serrs, ssnap, swhen, senter, sdisc>>
    /\ StreamerOnly

\* stream_job_events yields an entry; event_generator breaks if the client
\* has disconnected, else sends the entry as a data frame; back in
\* stream_job_events, last_id = event_id.
YieldEvent(s) ==
    /\ spc[s] = "yield"
    /\ IF sdisc[s]
         THEN /\ spc' = [spc EXCEPT ![s] = "closed_normally"]
              /\ UNCHANGED <<frames, slast, sbatch>>
         ELSE /\ frames' = [frames EXCEPT ![s] = Append(@, DataFrame(Head(sbatch[s])))]
              /\ slast' = [slast EXCEPT ![s] = Head(sbatch[s]).id]
              /\ sbatch' = [sbatch EXCEPT ![s] = Tail(@)]
              /\ spc' = [spc EXCEPT ![s] = IF Tail(sbatch[s]) = <<>> THEN "ping" ELSE "yield"]
    /\ UNCHANGED <<redisUp, outages, sstart, sfrom, serrs, ssnap, swhen, senter, sdisc>>
    /\ StreamerOnly

\* A heartbeat that also moves last_id to the top of the stream.
YieldCommentAdvancing(s) ==
    /\ spc[s] \in {"yield_ping", "yield_retrying"}
    /\ frames' = [frames EXCEPT ![s] = Append(@, CommentFrame("ping"))]
    /\ slast' = [slast EXCEPT ![s] = LastId(log[TheJob]) + 1]
    /\ spc' = [spc EXCEPT ![s] = "ping"]
    /\ UNCHANGED <<redisUp, outages, sstart, sfrom, sbatch, serrs, ssnap, swhen, senter, sdisc>>
    /\ StreamerOnly

\* stream_job_events yields a comment (the heartbeat after an empty read, the
\* retry notice after a ConnectionError); event_generator breaks if the
\* client has disconnected, else sends it as a comment frame.
YieldComment(s) ==
    /\ spc[s] \in {"yield_ping", "yield_retrying"}
    /\ IF sdisc[s]
         THEN /\ spc' = [spc EXCEPT ![s] = "closed_normally"]
              /\ UNCHANGED frames
         ELSE /\ frames' = [frames EXCEPT
                              ![s] = Append(@, CommentFrame(IF spc[s] = "yield_ping" THEN "ping"
                                                            ELSE "retrying_connection"))]
              /\ spc' = [spc EXCEPT ![s] = "ping"]
    /\ UNCHANGED <<redisUp, outages, sstart, slast, sfrom, sbatch, serrs, ssnap, swhen, senter, sdisc>>
    /\ StreamerOnly

\* await asyncio.sleep(1) of the except clauses; the one for ConnectionError
\* goes on to yield the retry notice, the other one back to the loop.
Sleep(s) ==
    /\ spc[s] \in {"sleep_then_comment", "sleep"}
    /\ spc' = [spc EXCEPT ![s] = IF spc[s] = "sleep" THEN "ping" ELSE "yield_retrying"]
    /\ UNCHANGED <<redisUp, outages, sstart, slast, sfrom, sbatch, serrs, ssnap, swhen, senter,
                   frames, sdisc>>
    /\ StreamerOnly

\* stream_job_events yields the error event and breaks; event_generator
\* breaks if the client has disconnected, else sends the error frame and
\* breaks.
YieldError(s) ==
    /\ spc[s] = "yield_error"
    /\ IF sdisc[s]
         THEN /\ spc' = [spc EXCEPT ![s] = "closed_normally"]
              /\ UNCHANGED frames
         ELSE /\ frames' = [frames EXCEPT ![s] = Append(@, ErrorFrame)]
              /\ spc' = [spc EXCEPT ![s] = "closed_on_error"]
    /\ UNCHANGED <<redisUp, outages, sstart, slast, sfrom, sbatch, serrs, ssnap, swhen, senter, sdisc>>
    /\ StreamerOnly

Closed(s) == spc[s] \in {"closed_normally", "closed_on_error"}

\* The client of a stream goes away.
ClientDisconnects(s) ==
    /\ spc[s] # "idle"
    /\ ~Closed(s)
    /\ ~sdisc[s]
    /\ sdisc' = [sdisc EXCEPT ![s] = TRUE]
    /\ UNCHANGED <<redisUp, outages, spc, sstart, slast, sfrom, sbatch, serrs, ssnap, swhen, senter,
                   frames>>
    /\ StreamerOnly

\* Times Redis stops answering in a run.
MaxOutages == 1

RedisFails ==
    /\ redisUp
    /\ outages < MaxOutages
    /\ redisUp' = FALSE
    /\ outages' = outages + 1
    /\ UNCHANGED <<spc, sstart, slast, sfrom, sbatch, serrs, ssnap, swhen, senter, frames, sdisc>>
    /\ StreamerOnly

RedisRecovers ==
    /\ ~redisUp
    /\ redisUp' = TRUE
    /\ UNCHANGED <<outages, spc, sstart, slast, sfrom, sbatch, serrs, ssnap, swhen, senter, frames,
                   sdisc>>
    /\ StreamerOnly

\* The steps of one streamer while Redis answers and its Last-Event-ID, if it
\* gave one, is a stream id.
StreamerStep(s) ==
    \/ \E last_event_id \in StartIds \ {BadId} : Connect(s, last_event_id)
    \/ SendConnected(s)
    \/ SendSnapshot(s)
    \/ Ping(s)
    \/ XReadCall(s)
    \/ XReadReturn(s)
    \/ YieldEvent(s)
    \/ YieldComment(s)

\* The job's writer: create_job, then the handler or the scenario's calls.
WriterStep ==
    \/ CreateJobHSet
    \/ CreateJobExpire
    \/ HandlerStart
    \/ ScenarioStart
    \/ HandlerXAdd
    \/ HandlerHGetAll
    \/ HandlerHSet
    \/ HandlerIsCancelled
    \/ HandlerUpstream

InitStream == NoJobs /\ IdleLimiter

\* The job's writer and one streamer; Redis answers.
NextStream ==
    \/ WriterStep
    \/ StreamerStep(1)

SpecStream == InitStream /\ [][NextStream]_vars

\* The scenario's writer and one streamer; Redis answers.
NextScenarioStream ==
    \/ CreateJobHSet
    \/ CreateJobExpire
    \/ ScenarioStart
    \/ HandlerXAdd
    \/ HandlerHGetAll
    \/ HandlerHSet
    \/ StreamerStep(1)

SpecScenarioStream == InitStream /\ [][NextScenarioStream]_vars

\* The steps of one streamer, whatever Redis does and whatever Last-Event-ID
\* it was given.
FaultyStreamerStep(s) ==
    \/ \E last_event_id \in StartIds : Connect(s, last_event_id)
    \/ SendConnected(s)
    \/ SendSnapshot(s)
    \/ Ping(s)
    \/ XReadCall(s)
    \/ XReadReturn(s)
    \/ YieldEvent(s)
    \/ YieldComment(s)
    \/ Sleep(s)
    \/ YieldError(s)

\* A writer (create_job and the scenario's calls, made while Redis answers),
\* one streamer, its client, and Redis failing and recovering.
NextStreamFaults ==
    \/ redisUp /\ CreateJobHSet
    \/ redisUp /\ CreateJobExpire
    \/ redisUp /\ ScenarioStart
    \/ redisUp /\ HandlerXAdd
    \/ redisUp /\ HandlerHGetAll
    \/ redisUp /\ HandlerHSet
    \/ FaultyStreamerStep(1)
    \/ ClientDisconnects(1)
    \/ RedisFails
    \/ RedisRecovers

SpecStreamFaults == InitStream /\ [][NextStreamFaults]_vars

\* The same, with the event loop running the streamer's coroutine whenever it
\* can take a step.
SpecStreamFaultsFair == SpecStreamFaults /\ WF_vars(FaultyStreamerStep(1))

\* Resume offsets of the two streamers of the fan-out.
FanOutStarts == 0 .. 1

\* The scenario's writer and two streamers of the same job, each resuming
\* from an offset; Redis answers.
NextFanOut ==
    \/ CreateJobHSet
    \/ CreateJobExpire
    \/ ScenarioStart
    \/ HandlerXAdd
    \/ HandlerHGetAll
    \/ HandlerHSet
    \/ \E s \in Streamers :
          \/ \E last_event_id \in FanOutStarts : Connect(s, last_event_id)
          \/ SendConnected(s)
          \/ SendSnapshot(s)
          \/ Ping(s)
          \/ XReadCall(s)
          \/ XReadReturn(s)
          \/ YieldEvent(s)
          \/ YieldComment(s)

SpecFanOut == InitStream /\ [][NextFanOut]_vars

\* ------------------------------------------------------------------------
\* Claims about the event log and the streamer
\* ------------------------------------------------------------------------

\* The data frames a streamer has sent, in order.
DataFrames(s) == SelectSeq(frames[s], LAMBDA f : f.kind = "data")

\* The data frames of the entries above an id, in log order.
FramesAfter(id) ==
    [i \in 1 .. Len(EntriesAfter(log[TheJob], id)) |->
        DataFrame(EntriesAfter(log[TheJob], id)[i])]

IsPrefix(a, b) == Len(a) <= Len(b) /\ a = SubSeq(b, 1, Len(a))

\* C11: within one job's log the appends get strictly increasing ids, none
\* used twice (an append adds one entry above every id there and leaves the
\* others as they are), and stream_job_events(job, X) yields no data event
\* with an id <= X.
C11_IdsIncreaseAndYieldsAboveStart ==
    /\ [](\A i, j \in 1 .. Len(log[TheJob]) : i < j => log[TheJob][i].id < log[TheJob][j].id)
    /\ [](\A s \in Streamers : sstart[s] >= 0 =>
              \A i \in 1 .. Len(DataFrames(s)) : DataFrames(s)[i].id > sstart[s])
    /\ [][log'[TheJob] # log[TheJob] =>
              /\ Len(log'[TheJob]) = Len(log[TheJob]) + 1
              /\ SubSeq(log'[TheJob], 1, Len(log[TheJob])) = log[TheJob]
              /\ \A i \in 1 .. Len(log[TheJob]) :
                     log'[TheJob][Len(log'[TheJob])].id > log[TheJob][i].id]_vars

\* Three entries are in the log and a streamer started after id 1 has sent a
\* data frame.
C11_Witness ==
    /\ Len(log[TheJob]) >= 3
    /\ sstart[1] = 1
    /\ Len(DataFrames(1)) >= 1

\* C12: stream_job_events started with last_event_id X yields, while Redis
\* answers, every entry with id > X once and in log order: what it has
\* yielded is always the first entries above X, and a read comes back empty
\* only when every entry above X has been yielded; entries added while it is
\* blocked or yielding are among them.
C12_ResumeYieldsEveryEntryInOrder ==
    /\ [](\A s \in Streamers : sstart[s] >= 0 => IsPrefix(DataFrames(s), FramesAfter(sstart[s])))
    /\ [][\A s \in Streamers :
              (sstart[s] >= 0 /\ spc[s] = "xread_blocked" /\ spc'[s] = "yield_ping")
                  => DataFrames(s) = FramesAfter(sstart[s])]_vars

\* A streamer started after id 1 sent its heartbeat and, after it, the frame
\* of an entry that was added later.
C12_Witness ==
    /\ sstart[1] = 1
    /\ \E i \in 1 .. Len(frames[1]) :
          /\ frames[1][i].kind = "comment"
          /\ i < Len(frames[1])
          /\ frames[1][i + 1].kind = "data"
    /\ Len(DataFrames(1)) >= 2

\* C13: a streamer opened without last_event_id forwards every entry added
\* after it entered streaming, once and in log order: what it has sent is
\* always the first entries above the top id of that moment, and a read comes
\* back empty only when all of them have been sent.
C13_NewOnlyForwardsEveryLaterEntry ==
    /\ [](\A s \in Streamers :
              (sstart[s] = NewOnly /\ spc[s] \notin {"idle", "send_connected", "send_snapshot"})
                  => IsPrefix(DataFrames(s), FramesAfter(senter[s])))
    /\ [][\A s \in Streamers :
              (sstart[s] = NewOnly /\ spc[s] = "xread_blocked" /\ spc'[s] = "yield_ping")
                  => DataFrames(s) = FramesAfter(senter[s])]_vars

C15_ScenarioSnapshotShowsDoneAnd100 ==
    \A s \in Streamers :
        (hpc = "scenario_completed" /\ swhen[s] /\ sstart[s] = NewOnly /\ Len(frames[s]) >= 2)
            => /\ frames[s][1] = ConnectedFrame
               /\ frames[s][2].kind = "snapshot"
               /\ frames[s][2].status = "done"
               /\ frames[s][2].percent = 100
               /\ DataFrames(s) = <<>>

\* Every attempt of the streamer to read the log fails: Redis is down, or
\* the id it reads from is one Redis refuses.
EveryReadFails(s) ==
    /\ spc[s] \notin {"idle", "send_connected", "send_snapshot"}
    /\ ~redisUp \/ slast[s] = BadId

ErrorFrames(s) == SelectSeq(frames[s], LAMBDA f : f.kind = "error")

\* C16: if from some point on every attempt of the streamer to read the log
\* fails (and its client stays), the streamer eventually sends an error frame
\* and is closed_on_error; it sends one error frame at most, and no frame
\* after it.
C16_PersistentFailureClosesOnError ==
    /\ \A s \in {1} :
          <>[](EveryReadFails(s) /\ ~sdisc[s]) => <>(spc[s] = "closed_on_error")
    /\ [](\A s \in Streamers :
              /\ Len(ErrorFrames(s)) <= 1
              /\ Len(ErrorFrames(s)) = 1 => frames[s][Len(frames[s])].kind = "error")

\* The pcs at which stream_job_events has yielded and event_generator asks
\* request.is_disconnected().
YieldPoints == {"yield", "yield_ping", "yield_retrying", "yield_error"}

\* C17: when the streamer finds its client disconnected it sends nothing
\* (not the entry just read, not an error frame) and terminates; once it has
\* terminated it sends no frame.
C17_NoFrameAfterDisconnectObserved ==
    /\ [][\A s \in Streamers :
              (sdisc[s] /\ spc[s] \in YieldPoints /\ spc'[s] # spc[s])
                  => frames'[s] = frames[s] /\ spc'[s] = "closed_normally"]_vars
    /\ [][\A s \in Streamers :
              Closed(s) => frames'[s] = frames[s] /\ spc'[s] = spc[s]]_vars

\* The streamer terminated on finding its client gone, the entry it had just
\* read still unsent.
C17_Witness ==
    /\ spc[1] = "closed_normally"
    /\ sdisc[1]
    /\ sbatch[1] # <<>>

\* C18: two streamers of one job that resume from the same offset get the
\* same data frames (what one has got so far is the beginning of what the
\* other has got); a streamer's step leaves the log, the job's state and the
\* writer as they are, so it removes no entry, changes nothing the other one
\* reads and leaves an append as enabled as it was.
C18_ReadersDoNotInterfere ==
    /\ [](sstart[1] = sstart[2] /\ spc[1] # "idle" /\ spc[2] # "idle"
            => IsPrefix(DataFrames(1), DataFrames(2)) \/ IsPrefix(DataFrames(2), DataFrames(1)))
    /\ [](\A s \in Streamers :
              spc[s] # "idle" => IsPrefix(DataFrames(s), FramesAfter(sstart[s])))
    /\ [][(spc' # spc \/ frames' # frames)
              => /\ UNCHANGED <<storeVars, jobProcVars>>
                 /\ (hpc' \in EmitLabels /\ hphase' = "xadd")
                       <=> (hpc \in EmitLabels /\ hphase = "xadd")]_vars

\* Both streamers resumed from offset 0 and each has got the log's three
\* entries.
C18_Witness ==
    /\ sstart[1] = 0
    /\ sstart[2] = 0
    /\ Len(DataFrames(1)) = 3
    /\ DataFrames(2) = DataFrames(1)

\* ------------------------------------------------------------------------
\* The background tasks around a handler that raises
\* ------------------------------------------------------------------------

Tasks == {"job", "feed", "gen"}

\* The caller holding the job slot of a generation job.
SlotHolder == 1

\* Where an exception raised at a statement of a task is caught: by the
\* inner, then the outer except of _run_job_task (whose emits are inside
\* try / except: pass); by the except of _run_feed_job_task, whose own emits
\* are not inside a try; by the except of _run_generation_job, whose emits
\* are inside try / except: pass and which goes on to its finally.
RaisedTo(l) ==
    CASE l \in {"job_emit_running", "job_body"} -> "job_inner_log"
      [] l \in {"job_inner_log", "job_inner_failed"} -> "job_outer_log"
      [] l \in {"job_outer_log", "job_outer_failed"} -> "task_returned"
      [] l \in {"feed_emit_running", "feed_body"} -> "feed_log"
      [] l \in {"feed_log", "feed_failed"} -> "task_escaped"
      [] l \in {"gen_emit_running", "gen_body"} -> "gen_log"
      [] l \in {"gen_log", "gen_failed"} -> "gen_finally"

\* The background task starts once the creating request has returned; the
\* request of a generation job holds a job slot.
TaskStart(k) ==
    /\ crpc = "returned"
    /\ hpc = "not_started"
    /\ k = "gen" <=> pc[SlotHolder] = "holding"
    /\ hpc' = CASE k = "job" -> "job_emit_running"
                 [] k = "feed" -> "feed_emit_running"
                 [] k = "gen" -> "gen_emit_running"
    /\ UNCHANGED <<storeVars, crpc, hphase, hread, hbatch, hargs, cpc, cjob, cret, ncancel>>
    /\ UNCHANGED <<limiterVars, gateVars, streamVars, retryVars>>

\* The handler raises.
HandlerRaises ==
    /\ hpc \in {"job_body", "feed_body", "gen_body"}
    /\ hpc' = RaisedTo(hpc)
    /\ UNCHANGED <<storeVars, crpc, hphase, hread, hbatch, hargs, cpc, cjob, cret, ncancel>>
    /\ UNCHANGED <<limiterVars, gateVars, streamVars, retryVars>>

\* An await of an emit raises, Redis not answering.
TaskEmitFails ==
    /\ hpc \in TaskEmitLabels
    /\ ~redisUp
    /\ hpc' = RaisedTo(hpc)
    /\ hphase' = "xadd"
    /\ hread' = EmptyHash
    /\ UNCHANGED <<storeVars, crpc, hbatch, hargs, cpc, cjob, cret, ncancel>>
    /\ UNCHANGED <<limiterVars, gateVars, streamVars, retryVars>>

\* finally of _run_generation_job: release_job_slot raises, Redis not
\* answering; except: pass.
TaskReleaseFails ==
    /\ hpc = "gen_finally"
    /\ ~redisUp
    /\ pc[SlotHolder] \in {"holding", "rel1_decr"}
    /\ pc' = [pc EXCEPT ![SlotHolder] = "idle"]
    /\ UNCHANGED <<kind, counter, hasTTL, ttl, over>>
    /\ UNCHANGED nonLimiterVars

\* The task function has ended: it returned, or an exception left it.
TaskOver ==
    \/ hpc \in {"task_returned", "task_escaped"}
    \/ hpc = "gen_finally" /\ pc[SlotHolder] = "idle"

\* A request creates a job (generate_descriptions acquires a job slot first)
\* and starts its background task; the handler raises; Redis fails and
\* recovers.
NextTasks ==
    \/ crpc = "none" /\ redisUp /\ AcquireGet(SlotHolder)
    \/ crpc = "none" /\ redisUp /\ AcquireIncr(SlotHolder)
    \/ crpc = "none" /\ redisUp /\ AcquireExpire(SlotHolder)
    \/ redisUp /\ CreateJobHSet
    \/ redisUp /\ CreateJobExpire
    \/ \E k \in Tasks : TaskStart(k)
    \/ HandlerRaises
    \/ redisUp /\ hpc \in TaskEmitLabels /\ HandlerXAdd
    \/ redisUp /\ hpc \in TaskEmitLabels /\ HandlerHGetAll
    \/ redisUp /\ hpc \in TaskEmitLabels /\ HandlerHSet
    \/ TaskEmitFails
    \/ redisUp /\ hpc = "gen_finally" /\ ReleaseGetOnce(SlotHolder)
    \/ redisUp /\ hpc = "gen_finally" /\ ReleaseDecrOnce(SlotHolder)
    \/ TaskReleaseFails
    \/ RedisFails
    \/ RedisRecovers

SpecTasks == InitStream /\ [][NextTasks]_vars

\* C23: when the handler raises inside one of the background tasks, no
\* exception leaves the task, and (Redis having answered throughout) once
\* the task is over the log holds a log event and a failed status event and
\* the projection's status is failed.
C23_HandlerFailureRecordedAndContained ==
    /\ hpc # "task_escaped"
    /\ (TaskOver /\ outages = 0) =>
          /\ \E i \in 1 .. Len(log[TheJob]) : log[TheJob][i].event = "log"
          /\ \E i \in 1 .. Len(log[TheJob]) :
                log[TheJob][i].event = "status" /\ log[TheJob][i].status = "failed"
          /\ state[TheJob].status = "failed"

\* ------------------------------------------------------------------------
\* The feed job: generate_feed under _run_feed_job_task
\* ------------------------------------------------------------------------

\* cancel_check() of _run_feed_job_task, called from generate_feed while the
\* event loop runs: it returns the variable _cancelled, which is set to
\* False when the task starts and which nothing updates (update_cancel_flag
\* is never called); any exception inside it is turned into False as well.
\* It does not read the cancel key.
cancel_check == FALSE

\* generate_feed is entered.
FeedStart ==
    /\ crpc = "returned"
    /\ hpc = "not_started"
    /\ hpc' = "gf_running"
    /\ UNCHANGED <<storeVars, crpc, hphase, hread, hbatch, hargs, cpc, cjob, cret, ncancel>>
    /\ UNCHANGED <<limiterVars, gateVars, streamVars, retryVars>>

\* fetch_woocommerce_products: the upstream calls.
FeedFetch ==
    /\ hpc = "gf_fetch"
    /\ hpc' = "gf_check"
    /\ UNCHANGED <<storeVars, crpc, hphase, hread, hbatch, hargs, cpc, cjob, cret, ncancel>>
    /\ UNCHANGED <<limiterVars, gateVars, streamVars, retryVars>>

\* if cancel_check and cancel_check(): after the fetch, and before a
\* channel's XML is written.
FeedCancelCheck ==
    /\ hpc \in {"gf_check", "gf_check_xml"}
    /\ hpc' = IF cancel_check THEN "gf_cancelled"
              ELSE IF hpc = "gf_check" THEN "gf_progress_xml" ELSE "gf_progress_done"
    /\ UNCHANGED <<storeVars, crpc, hphase, hread, hbatch, hargs, cpc, cjob, cret, ncancel>>
    /\ UNCHANGED <<limiterVars, gateVars, streamVars, retryVars>>

NextFeed ==
    \/ CreateJobHSet
    \/ CreateJobExpire
    \/ FeedStart
    \/ HandlerXAdd
    \/ HandlerHGetAll
    \/ HandlerHSet
    \/ FeedFetch
    \/ FeedCancelCheck
    \/ \E j \in Jobs : CancelExists(j)
    \/ CancelHSetStatus
    \/ CancelHSetUpdatedAt
    \/ CancelSetFlag

SpecFeed == InitStream /\ [][NextFeed]_vars

\* C24: in a feed job, cancel_check() called by the handler after
\* cancel_job(job_id) has returned True returns True: the handler goes on to
\* emit cancelled and to return, and does not go on to done.
C24_FeedCancelCheckSeesCancel ==
    [][(hpc \in {"gf_check", "gf_check_xml"} /\ cret = "true" /\ cjob = TheJob /\ hpc' # hpc)
          => hpc' = "gf_cancelled"]_vars

\* ------------------------------------------------------------------------
\* emit_progress called with any arguments
\* ------------------------------------------------------------------------

NextProgress ==
    \/ CreateJobHSet
    \/ CreateJobExpire
    \/ ProgressStart
    \/ HandlerXAdd
    \/ HandlerHGetAll
    \/ HandlerHSet

SpecProgress == InitStream /\ [][NextProgress]_vars

\* C22: for 0 <= done <= total with total > 0 emit_progress records
\* percent = floor(done * 100 / total) in the progress event and in the
\* projection, and percent = 0 for total = 0.
C22_PercentIsFloor ==
    /\ \A i \in 1 .. Len(log[TheJob]) :
          log[TheJob][i].event = "progress" =>
              log[TheJob][i].percent = PercentFloor(log[TheJob][i].done, log[TheJob][i].total)
    /\ state[TheJob].progress # NoProgress =>
          state[TheJob].progress[3] =
              PercentFloor(state[TheJob].progress[1], state[TheJob].progress[2])

\* ------------------------------------------------------------------------
\* retry_with_backoff_async (core/utils.py)
\* ------------------------------------------------------------------------

\* Largest max_retries a call is made with.
MaxBudget == 2

Budgets == 0 .. MaxBudget

\* initial_delay and backoff_factor of a call.
InitialDelays == {1, 2}

BackoffFactors == {2, 3}

\* The default of retry_on_status.
RetryOnStatus == {504, 500, 502, 503, 429}

\* status_code None.
NoStatus == 0

\* What one invocation of func can do: return (success, result, status_code),
\* as make_request of the HTTP clients does, or raise.
FuncOutcomes ==
    {[does |-> "returns", success |-> TRUE, result |-> "data", status |-> 200],
     [does |-> "returns", success |-> FALSE, result |-> "error_text", status |-> 503],
     [does |-> "returns", success |-> FALSE, result |-> "error_text", status |-> 429],
     [does |-> "returns", success |-> FALSE, result |-> "error_text", status |-> 404],
     [does |-> "returns", success |-> FALSE, result |-> "request_error", status |-> NoStatus],
     [does |-> "raises", success |-> FALSE, result |-> "exception", status |-> NoStatus]}

\* The tuple retry_with_backoff_async returns.
Returned(success, result, status) ==
    [success |-> success, result |-> result, status |-> status]

RECURSIVE Pow(_, _)
Pow(b, e) == IF e = 0 THEN 1 ELSE b * Pow(b, e - 1)

RetryOnly == UNCHANGED <<limiterVars, storeVars, jobProcVars, gateVars, streamVars>>

\* retry_with_backoff_async is called: delay = initial_delay, attempt = 0.
RetryCall ==
    /\ rpc = "idle"
    /\ \E m \in Budgets, d \in InitialDelays, b \in BackoffFactors :
          /\ rparams' = [max_retries |-> m, initial_delay |-> d, backoff_factor |-> b]
          /\ rdelay' = d
    /\ rattempt' = 0
    /\ rpc' = "invoke"
    /\ UNCHANGED <<routcomes, rsleeps, rret>>
    /\ RetryOnly

\* AfterInvoke without the test of status_code against retry_on_status.
AfterInvokeRetryAnyStatus(o) ==
    IF o.does = "returns" /\ o.success
      THEN /\ rret' = Returned(TRUE, o.result, o.status)
           /\ rpc' = "returned"
      ELSE IF rattempt >= rparams.max_retries
             THEN /\ rret' = Returned(FALSE, o.result, o.status)
                  /\ rpc' = "returned"
      ELSE /\ rpc' = "sleep"
           /\ UNCHANGED rret

\* AfterInvoke allowing one attempt more than max_retries + 1.
AfterInvokeOneMore(o) ==
    IF o.does = "returns" /\ o.success
      THEN /\ rret' = Returned(TRUE, o.result, o.status)
           /\ rpc' = "returned"
      ELSE IF o.does = "returns" /\ o.status # NoStatus /\ o.status \notin RetryOnStatus
             THEN /\ rret' = Returned(FALSE, o.result, o.status)
                  /\ rpc' = "returned"
      ELSE IF rattempt > rparams.max_retries
             THEN /\ rret' = Returned(FALSE, o.result, o.status)
                  /\ rpc' = "returned"
      ELSE /\ rpc' = "sleep"
           /\ UNCHANGED rret

\* AfterInvoke without the except clause: an exception of func leaves the
\* call.
AfterInvokePropagating(o) ==
    IF o.does = "raises"
      THEN /\ rpc' = "raised"
           /\ UNCHANGED rret
      ELSE IF o.success
             THEN /\ rret' = Returned(TRUE, o.result, o.status)
                  /\ rpc' = "returned"
      ELSE IF o.status # NoStatus /\ o.status \notin RetryOnStatus
             THEN /\ rret' = Returned(FALSE, o.result, o.status)
                  /\ rpc' = "returned"
      ELSE IF rattempt >= rparams.max_retries
             THEN /\ rret' = Returned(FALSE, o.result, o.status)
                  /\ rpc' = "returned"
      ELSE /\ rpc' = "sleep"
           /\ UNCHANGED rret

\* The statements after await func() of one loop iteration, up to the return
\* or the sleep.
AfterInvoke(o) ==
    IF o.does = "raises"
      THEN IF rattempt >= rparams.max_retries
             THEN /\ rret' = Returned(FALSE, o.result, NoStatus)
                  /\ rpc' = "returned"
             ELSE /\ rpc' = "sleep"
                  /\ UNCHANGED rret
      ELSE IF o.success
             THEN /\ rret' = Returned(TRUE, o.result, o.status)
                  /\ rpc' = "returned"
      ELSE IF o.status # NoStatus /\ o.status \notin RetryOnStatus
             THEN /\ rret' = Returned(FALSE, o.result, o.status)
                  /\ rpc' = "returned"
      ELSE IF rattempt >= rparams.max_retries
             THEN /\ rret' = Returned(FALSE, o.result, o.status)
                  /\ rpc' = "returned"
      ELSE /\ rpc' = "sleep"
           /\ UNCHANGED rret

\* One iteration of the loop: await func(), then AfterInvoke.
RetryInvoke ==
    /\ rpc = "invoke"
    /\ \E o \in FuncOutcomes :
          /\ routcomes' = Append(routcomes, o)
          /\ AfterInvoke(o)
    /\ UNCHANGED <<rparams, rattempt, rdelay, rsleeps>>
    /\ RetryOnly

\* delay after a sleep, the factor left out.
NextDelayFlat == rdelay

\* delay *= backoff_factor
NextDelay == rdelay * rparams.backoff_factor

\* await asyncio.sleep(delay); delay *= backoff_factor; the next iteration.
RetrySleep ==
    /\ rpc = "sleep"
    /\ rsleeps' = Append(rsleeps, rdelay)
    /\ rdelay' = NextDelay
    /\ rattempt' = rattempt + 1
    /\ rpc' = "invoke"
    /\ UNCHANGED <<rparams, routcomes, rret>>
    /\ RetryOnly

InitRetry == NoJobs /\ IdleLimiter

NextRetry ==
    \/ RetryCall
    \/ RetryInvoke
    \/ RetrySleep

SpecRetry == InitRetry /\ [][NextRetry]_vars

\* ------------------------------------------------------------------------
\* Claims about retry_with_backoff_async
\* ------------------------------------------------------------------------

\* func returned a failure whose status is in retry_on_status.
FailedRetryably(o) == o.does = "returns" /\ ~o.success /\ o.status \in RetryOnStatus

\* func returned a failure with a status that is not in retry_on_status.
FailedForGood(o) ==
    o.does = "returns" /\ ~o.success /\ o.status # NoStatus /\ o.status \notin RetryOnStatus

Succeeded(o) == o.does = "returns" /\ o.success

\* C19: for every k <= max_retries, when func fails k times with a status in
\* retry_on_status the call is still going (k sleeps made or the k-th about
\* to be made), and when func then succeeds the call returns that success
\* after k + 1 invocations and k sleeps, the i-th sleep (from 0) lasting
\* initial_delay * backoff_factor^i.
C19_RetriesThenSuccess ==
    \A k \in 0 .. Len(routcomes) :
        (k <= rparams.max_retries /\ \A i \in 1 .. k : FailedRetryably(routcomes[i])) =>
            /\ Len(routcomes) = k /\ k >= 1 => rpc \in {"sleep", "invoke"}
            /\ (Len(routcomes) = k + 1 /\ Succeeded(routcomes[k + 1])) =>
                  /\ rpc = "returned"
                  /\ rret = Returned(TRUE, routcomes[k + 1].result, routcomes[k + 1].status)
                  /\ Len(rsleeps) = k
                  /\ \A i \in 0 .. k - 1 :
                         rsleeps[i + 1] = rparams.initial_delay * Pow(rparams.backoff_factor, i)

\* func failed max_retries times with a status in retry_on_status, with two
\* retries allowed, and then succeeded.
C19_Witness ==
    /\ rpc = "returned"
    /\ rparams.max_retries = 2
    /\ Len(routcomes) = 3
    /\ FailedRetryably(routcomes[1])
    /\ FailedRetryably(routcomes[2])
    /\ Succeeded(routcomes[3])
    /\ rret.success

C21_BoundedAttemptsAndLastFailureReturned ==
    /\ Len(routcomes) <= rparams.max_retries + 1
    /\ Len(rsleeps) <= rparams.max_retries
    /\ rpc = "sleep" => Len(rsleeps) < rparams.max_retries
    /\ (rpc # "idle" /\ Len(routcomes) = rparams.max_retries + 1) =>
          /\ rpc = "returned"
          /\ (\A i \in 1 .. Len(routcomes) : FailedRetryably(routcomes[i])) =>
                /\ rret = Returned(FALSE, routcomes[Len(routcomes)].result,
                                   routcomes[Len(routcomes)].status)
                /\ Len(rsleeps) = rparams.max_retries

\* A call with two retries returned after three invocations that failed with
\* statuses 503, 503 and 429.
C21_Witness ==
    /\ rpc = "returned"
    /\ rparams.max_retries = 2
    /\ Len(routcomes) = 3
    /\ \A i \in 1 .. 3 : FailedRetryably(routcomes[i])
    /\ routcomes[3].status = 429
    /\ ~rret.success

\* ------------------------------------------------------------------------
\* Further claims about the job's keys
\* ------------------------------------------------------------------------

\* C26: every key written for a job (state record, event log, cancellation
\* flag) and the concurrency counter carries an expiry; a key is allowed to
\* be without one only while the call that creates it stands between its
\* write and its EXPIRE.
C26_EveryKeyCarriesExpiry ==
    /\ \A j \in Jobs :
          /\ (KeyExists(state[j]) /\ crpc # "expire") => expires[j].state
          /\ log[j] # <<>> => expires[j].events
          /\ cancelFlag[j] => expires[j].cancel
    /\ (counter > 0 /\ \A c \in Callers : pc[c] # "expire") => hasTTL

\* C27: create_job returns only after it has written a record with status
\* queued and the given store_id, and that record exists before the job's
\* handler starts and before any event is appended to the job's log.
C27_RecordBeforeHandlerAndEvents ==
    /\ [][(crpc = "none" /\ crpc' # "none") =>
             state'[TheJob] = CreatedRecord(JobStore)]_vars
    /\ [](crpc = "returned" =>
             KeyExists(state[TheJob]) /\ state[TheJob].store_id = JobStore)
    /\ []((hpc # "not_started" \/ log[TheJob] # <<>>) =>
             crpc = "returned" /\ KeyExists(state[TheJob]))

\* The handler has started and appended its first event over the record
\* create_job wrote.
C27_Witness ==
    /\ hpc # "not_started"
    /\ log[TheJob] # <<>>
    /\ state[TheJob] = CreatedRecord(JobStore)

\* C28: emit_log appends exactly one log event to the job's log and leaves
\* the job's state projection as it was.
C28_EmitLogOnlyAppends ==
    [][(hpc \in EmitLabels /\ EmitOf(hpc).event = "log" /\ hpc' # hpc) =>
          /\ Len(log'[TheJob]) = Len(log[TheJob]) + 1
          /\ SubSeq(log'[TheJob], 1, Len(log[TheJob])) = log[TheJob]
          /\ log'[TheJob][Len(log'[TheJob])].event = "log"
          /\ \A j \in Jobs \ {TheJob} : log'[j] = log[j]
          /\ state' = state]_vars

\* emit_log has returned after emit_status("running") had updated the
\* projection.
C28_Witness ==
    /\ hpc = "check"
    /\ Len(log[TheJob]) = 2
    /\ log[TheJob][2].event = "log"
    /\ state[TheJob].status = "running"

\* The statements a batch handler runs after is_cancelled answered true.
CancelPath == {"log_cancelled", "emit_cancelled", "emit_cancelled_final"}

\* The last status event of job j's log carries status st.
LastStatusEmitted(j, st) ==
    \E i \in 1 .. Len(log[j]) :
        /\ log[j][i].event = "status"
        /\ log[j][i].status = st
        /\ \A k \in (i + 1) .. Len(log[j]) : log[j][k].event # "status"

\* C29: in a batch handler, once the cancel flag is set when a batch's
\* cancellation check is made, no further batch is sent upstream, the handler
\* terminates, and the last status it emits is cancelled.
C29_CancelSeenStopsBatches ==
    /\ [][(hpc \in {"check", "final_check"} /\ cancelFlag[TheJob] /\ hpc' # hpc) =>
             hpc' \in CancelPath]_vars
    /\ [][(hpc \in CancelPath) =>
             (hbatch' = hbatch /\ hpc' \in (CancelPath \cup {"returned"}))]_vars
    /\ (hpc \in {"check", "final_check"} /\ cancelFlag[TheJob]) ~>
          /\ hpc = "returned"
          /\ LastStatusEmitted(TheJob, "cancelled")

\* The handler has stopped on the check between the first batch and the
\* second.
C29_Witness ==
    /\ hpc = "returned"
    /\ cancelFlag[TheJob]
    /\ hbatch = 1
    /\ LastStatusEmitted(TheJob, "cancelled")

\* cancel_job has written status cancelled into job j's record.
CancelJobWrote(j) ==
    \/ cancelFlag[j]
    \/ cjob = j /\ cpc \in {"hset_updated_at", "set_flag"}

\* C30: in every reachable state, between the two steps of an emit and where
\* a writer stops for good included, each status or progress value that
\* emit_status / emit_progress wrote to the projection already stands in an
\* event of the job's log.
C30_ProjectionNeverAheadOfLog ==
    \A j \in Jobs :
        /\ state[j].status \in {"running", "done", "failed"} =>
              \E i \in 1 .. Len(log[j]) :
                  log[j][i].event = "status" /\ log[j][i].status = state[j].status
        /\ (state[j].status = "cancelled" /\ ~CancelJobWrote(j)) =>
              \E i \in 1 .. Len(log[j]) :
                  log[j][i].event = "status" /\ log[j][i].status = "cancelled"
        /\ state[j].progress # NoProgress =>
              \E i \in 1 .. Len(log[j]) :
                  /\ log[j][i].event = "progress"
                  /\ <<log[j][i].done, log[j][i].total, log[j][i].percent>> = state[j].progress

\* emit_status("done") stands between its XADD and its HSET: the log holds
\* done, the projection running and the progress of the last batch.
C30_Witness ==
    /\ hpc = "emit_done"
    /\ hphase = "hset"
    /\ LastStatusEmitted(TheJob, "done")
    /\ state[TheJob].status = "running"
    /\ state[TheJob].progress # NoProgress

\* ------------------------------------------------------------------------
\* Further claims about the streamer
\* ------------------------------------------------------------------------

\* C31: every tolerated read failure below the threshold, a connection error
\* or any other error, is followed by a pause and then a heartbeat comment
\* frame that identifies the retry, before the next read attempt: the
\* streamer goes from an except clause back to the head of its loop only by
\* sending that comment.
C31_EveryToleratedFailureSendsRetryComment ==
    [][\A s \in Streamers :
          (spc[s] \in {"sleep", "sleep_then_comment", "yield_retrying"} /\ spc'[s] = "ping") =>
              /\ spc[s] = "yield_retrying"
              /\ frames'[s] = Append(frames[s], CommentFrame("retrying_connection"))]_vars

\* C32: a read that times out with no new events produces exactly one
\* heartbeat comment frame (no id, no data frame) and leaves the streamer's
\* resume offset as it was, and a forwarded event carries the id, kind and
\* payload of the log entry unchanged.
C32_HeartbeatAndVerbatimForward ==
    [][\A s \in Streamers :
          /\ (spc[s] = "xread_blocked" /\ spc'[s] = "yield_ping") =>
                /\ EntriesAfter(log[TheJob], sfrom[s]) = <<>>
                /\ frames'[s] = frames[s]
                /\ slast'[s] = slast[s]
          /\ (spc[s] = "yield_ping" /\ spc'[s] # spc[s] /\ ~sdisc[s]) =>
                /\ frames'[s] = Append(frames[s], CommentFrame("ping"))
                /\ CommentFrame("ping").id = NoField
                /\ slast'[s] = slast[s]
                /\ spc'[s] = "ping"
          /\ (spc[s] = "yield" /\ spc'[s] # spc[s] /\ ~sdisc[s]) =>
                \E i \in 1 .. Len(log[TheJob]) :
                    /\ Len(frames'[s]) = Len(frames[s]) + 1
                    /\ SubSeq(frames'[s], 1, Len(frames[s])) = frames[s]
                    /\ frames'[s][Len(frames'[s])] =
                          [kind |-> "data", id |-> log[TheJob][i].id,
                           event |-> log[TheJob][i].event, status |-> log[TheJob][i].status,
                           done |-> log[TheJob][i].done, total |-> log[TheJob][i].total,
                           percent |-> log[TheJob][i].percent]
                    /\ slast'[s] = log[TheJob][i].id]_vars

\* The streamer has forwarded the log's last entry and then sent a heartbeat
\* after an empty read; its offset is still that entry's id.
C32_Witness ==
    /\ spc[1] = "ping"
    /\ Len(frames[1]) >= 2
    /\ frames[1][Len(frames[1])] = CommentFrame("ping")
    /\ frames[1][Len(frames[1]) - 1].kind = "data"
    /\ slast[1] = frames[1][Len(frames[1]) - 1].id

\* ------------------------------------------------------------------------
\* Further claims about the projection, the slots and the tasks
\* ------------------------------------------------------------------------

\* C33: a projection merge by emit_progress changes only the progress (and
\* metrics, current, updated_at) of the record: the HSET that completes it
\* leaves the status as it stands, so a status cancelled written by
\* cancel_job meanwhile is still cancelled after the merge.
C33_ProgressMergeKeepsStatus ==
    [][(hpc \in EmitLabels /\ EmitOf(hpc).event = "progress" /\ hphase = "hset"
          /\ hphase' # hphase) =>
             state'[TheJob].status = state[TheJob].status]_vars

\* C34: a streamer opened without Last-Event-ID that is connected when the
\* job reaches a terminal status is sent that status, in its snapshot frame
\* or in a later status event.  Stated where nothing more can come: the
\* writer has finished and the streamer waits in XREAD; by then the terminal
\* status has been sent or stands among the entries the XREAD will return.
C34_NewOnlyStreamerGetsTerminalStatus ==
    \A s \in Streamers :
        (/\ sstart[s] = NewOnly
         /\ spc[s] = "xread_blocked"
         /\ hpc \in {"returned", "scenario_completed"}
         /\ state[TheJob].status \in TerminalStatuses) =>
            \/ \E i \in 1 .. Len(frames[s]) :
                  /\ frames[s][i].kind \in {"snapshot", "data"}
                  /\ frames[s][i].status \in TerminalStatuses
            \/ \E i \in 1 .. Len(log[TheJob]) :
                  /\ log[TheJob][i].id > sfrom[s]
                  /\ log[TheJob][i].event = "status"
                  /\ log[TheJob][i].status \in TerminalStatuses

\* C35: every upload_zip request that acquired an upload slot calls
\* release_upload_slot exactly once before it returns, on success and on
\* every error path (no caller comes to a second release call), so the
\* counter never falls below the number of uploads holding a slot.
C35_UploadReleasesExactlyOnce ==
    kind = "upload" =>
        /\ \A c \in Callers : pc[c] \notin {"released", "rel2_decr"}
        /\ counter >= Cardinality(Holders)

\* C36: every successful acquire_job_slot in generate_descriptions is
\* followed by exactly one release_job_slot on every path: no request that
\* holds a job slot ends without a release call, and none makes a second one.
C36_JobSlotReleasedOnEveryPath ==
    kind = "job" =>
        \A c \in Callers : pc[c] \notin {"leaked", "released", "rel2_decr"}

\* C37: a single handler exception in _run_job_task appends exactly one
\* failed status event and exactly one diagnostic log event to the job's
\* log: so the log stands when the task ends, Redis having answered
\* throughout.
C37_OneFailedEventPerHandlerException ==
    [][(hpc = "job_outer_failed" /\ hpc' = "task_returned" /\ outages' = 0) =>
          /\ Cardinality({i \in 1 .. Len(log'[TheJob]) :
                             /\ log'[TheJob][i].event = "status"
                             /\ log'[TheJob][i].status = "failed"}) = 1
          /\ Cardinality({i \in 1 .. Len(log'[TheJob]) :
                             log'[TheJob][i].event = "log"}) = 1]_vars

\* The callers a slot is counted for: those holding one, and those whose INCR
\* returned a value within the ceiling and whose acquire is about to return
\* True.
SlotsTaken == Holders \cup {c \in Callers : pc[c] = "expire" /\ ~over[c]}

\* C38: an acquire is rejected only if N slots were held by other callers at
\* some moment during the call; a transient increment of a concurrent acquire
\* that is itself rolled back never causes a rejection.  Stated for the
\* rejection on the first check, where the call is the one moment of its GET.
C38_RejectedOnlyWhenCeilingHeld ==
    [][\A c \in Callers :
          (pc[c] = "idle" /\ pc'[c] = "rejected") =>
              Cardinality(SlotsTaken \ {c}) >= Ceiling(kind)]_vars

\* ------------------------------------------------------------------------
\* Further claims about retry_with_backoff_async
\* ------------------------------------------------------------------------

\* func raised, or returned a failure without a status code.
FailedWithoutStatus(o) ==
    o.does = "raises" \/ (o.does = "returns" /\ ~o.success /\ o.status = NoStatus)

\* C39: an invocation that raises, or fails with no status code, is treated
\* as retryable whatever retry_on_status holds: with retries left the call
\* sleeps and invokes again; and when every invocation raises, the call
\* returns (False, str(exception), None) after max_retries + 1 invocations
\* and max_retries sleeps, the exception not leaving it.
C39_NoStatusFailuresAreRetried ==
    /\ rpc \in {"idle", "invoke", "sleep", "returned"}
    /\ \A k \in 1 .. Len(routcomes) :
          (FailedWithoutStatus(routcomes[k]) /\ k <= rparams.max_retries) =>
              /\ Len(routcomes) = k => rpc = "sleep" \/ (rpc = "invoke" /\ Len(rsleeps) = k)
              /\ Len(rsleeps) >= k - 1
    /\ (/\ rpc \in {"returned", "raised"}
        /\ \A i \in 1 .. Len(routcomes) : routcomes[i].does = "raises") =>
            /\ Len(routcomes) = rparams.max_retries + 1
            /\ Len(rsleeps) = rparams.max_retries
            /\ rret = Returned(FALSE, "exception", NoStatus)

\* A call with two retries returned after three invocations that all raised.
C39_Witness ==
    /\ rpc = "returned"
    /\ rparams.max_retries = 2
    /\ Len(routcomes) = 3
    /\ \A i \in 1 .. 3 : routcomes[i].does = "raises"
    /\ rret = Returned(FALSE, "exception", NoStatus)

====
